---- MODULE Spec2Model ----
(***************************************************************************)
(* Model of the yuzu audio renderer front-end:                             *)
(*   - AudioCore::Stream        (src/src/audio_core/algorithm/interpolate.h,*)
(*                               second half: stream.cpp)                  *)
(*   - AudioCore::AudioRenderer (src/unnamed/part_001, first half:         *)
(*                               audio_renderer.cpp, and audio_renderer.h) *)
(* Every operation of the program is a state transformer (an operator on   *)
(* records); the actions at the end wrap them.                             *)
(***************************************************************************)
EXTENDS Integers, Sequences, FiniteSets, TLC

VARIABLES
    stream,         \* the Stream object (state, queued_buffers, active_buffer, ...)
    buffer_event,   \* Kernel::WritableEvent of the renderer: TRUE once signaled
    worker_params,  \* AudioRendererParameter captured at construction
    voices,         \* std::vector<VoiceState>
    effects,        \* std::vector<EffectState>
    channels,       \* std::vector<ChannelState>
    input_params,   \* the request blob of the latest UpdateAudioRenderer call
    output_params,  \* the response blob of the latest UpdateAudioRenderer call
    ret,            \* the latest operation and what it returned
    hist,           \* history of the stream harness (tags accepted, activated, ...)
    rhist           \* history of the renderer (releases owed a regeneration)

vars == <<stream, buffer_event, worker_params, voices, effects, channels,
          input_params, output_params, ret, hist, rhist>>

(***************************************************************************)
(* Bounds of the model (not program constants).                            *)
(***************************************************************************)
\* QueueBuffer calls accepted per behaviour of the stream harness
MaxAccepted == 34
\* largest max_count handed to GetTagsAndReleaseBuffers by the harness
MaxCount == 2
\* samples per channel of one mixed frame (512 in the source, scaled down)
BUFFER_SIZE == 2
\* largest configured voice_count
MaxVoices == 1
\* largest configured effect_count
MaxEffects == 1
\* largest configured sink_count
MaxSinks == 1
\* cap of a voice's played_sample_count (an unbounded counter in the source)
MaxPlayed == 6
\* the largest wave_buffer_head of a voice description
MaxHead == 4
\* the largest played_sample_count and wave_buffer_consumed of a voice on
\* its own
MaxDequeued == 3
\* the largest sample_count of a DequeueSamples call on a voice on its own
MaxSampleCount == 3
\* buffers QueueBuffer is offered in the runs that follow each buffer to
\* its release
MaxLive == 4

(***************************************************************************)
(* Program constants.                                                      *)
(***************************************************************************)
MaxAudioBufferCount == 32
STREAM_NUM_CHANNELS == 2
STREAM_SAMPLE_RATE == 48000

Min(a, b) == IF a < b THEN a ELSE b
Max(a, b) == IF a > b THEN a ELSE b

IsPrefix(s, t) == Len(s) <= Len(t) /\ SubSeq(t, 1, Len(s)) = s

(***************************************************************************)
(* Stream                                                                  *)
(***************************************************************************)
\* A Buffer: its tag and its samples.
Buffer(tag, samples) == [tag |-> tag, samples |-> samples]

\* Stream::Stream: the object right after construction.  active_buffer is a
\* shared_ptr, modelled as a sequence of length 0 (null) or 1.  events counts
\* the release events scheduled in core_timing and not yet fired, callbacks
\* the calls of release_callback whose effect the caller has yet to apply.
NewStream ==
    [state |-> "Stopped",
     queued_buffers |-> <<>>,
     active_buffer |-> <<>>,
     released_buffers |-> <<>>,
     game_volume |-> 1,
     events |-> 0,
     sink |-> "None",
     assert_failed |-> FALSE,
     callbacks |-> 0]

IsPlaying(s) == s.state = "Playing"

\* VolumeAdjustSamples with Settings::values.volume = 1.0 and game_volume in
\* {0, 1}: volume 1 returns early, volume 0 scales by 0.
VolumeAdjustSamples(samples, game_volume) ==
    LET volume == Min(Max(1 - (1 - game_volume), 0), 1)
    IN  IF volume = 1 THEN samples
        ELSE [i \in DOMAIN samples |-> 0]

PlayNextBufferLifo(s) ==
    IF ~IsPlaying(s) THEN [s EXCEPT !.sink = "Flush"]
    ELSE IF s.active_buffer # <<>> THEN s
    ELSE IF s.queued_buffers = <<>> THEN [s EXCEPT !.sink = "Flush"]
    ELSE LET n == Len(s.queued_buffers)
             b == s.queued_buffers[n]
         IN  [s EXCEPT !.active_buffer = <<b>>,
                       !.queued_buffers = SubSeq(@, 1, n - 1),
                       !.sink = "Enqueue",
                       !.events = @ + 1]

\* PlayNextBuffer without the test of the play state.
PlayNextBufferAnyState(s) ==
    IF s.active_buffer # <<>> THEN s
    ELSE IF s.queued_buffers = <<>> THEN [s EXCEPT !.sink = "Flush"]
    ELSE LET b == Head(s.queued_buffers)
             adjusted == [b EXCEPT !.samples = VolumeAdjustSamples(@, s.game_volume)]
         IN  [s EXCEPT !.active_buffer = <<adjusted>>,
                       !.queued_buffers = Tail(@),
                       !.sink = "Enqueue",
                       !.events = @ + 1]

PlayNextBuffer(s) ==
    IF ~IsPlaying(s) THEN [s EXCEPT !.sink = "Flush"]
    ELSE IF s.active_buffer # <<>> THEN s
    ELSE IF s.queued_buffers = <<>> THEN [s EXCEPT !.sink = "Flush"]
    ELSE LET b == Head(s.queued_buffers)
             adjusted == [b EXCEPT !.samples = VolumeAdjustSamples(@, s.game_volume)]
         IN  [s EXCEPT !.active_buffer = <<adjusted>>,
                       !.queued_buffers = Tail(@),
                       !.sink = "Enqueue",
                       !.events = @ + 1]

\* Play that sets the state and starts nothing.
PlayStateOnly(s) == [s EXCEPT !.state = "Playing"]

Play(s) == PlayNextBuffer([s EXCEPT !.state = "Playing"])

Stop(s) == [s EXCEPT !.state = "Stopped"]

\* PushReleased copying the active buffer instead of moving it.
PushReleasedCopy(s) ==
    IF s.active_buffer = <<>> THEN [s EXCEPT !.assert_failed = TRUE]
    ELSE [s EXCEPT !.released_buffers = Append(@, s.active_buffer[1])]

\* ReleaseActiveBuffer up to the release callback: ASSERT(active_buffer) and
\* the push onto released_buffers.
PushReleased(s) ==
    IF s.active_buffer = <<>> THEN [s EXCEPT !.assert_failed = TRUE]
    ELSE [s EXCEPT !.released_buffers = Append(@, s.active_buffer[1]),
                   !.active_buffer = <<>>]

\* release_callback()
ReleaseCallback(s) == [s EXCEPT !.callbacks = @ + 1]

\* ReleaseActiveBuffer without the attempt to start the next buffer.
ReleaseActiveBufferNoNext(s) == ReleaseCallback(PushReleased(s))

ReleaseActiveBufferNoCallback(s) == PlayNextBuffer(PushReleased(s))

ReleaseActiveBuffer(s) == PlayNextBuffer(ReleaseCallback(PushReleased(s)))

QueueBufferNoLimit(s, buffer) ==
    [stream |-> PlayNextBuffer([s EXCEPT !.queued_buffers = Append(@, buffer)]),
     result |-> TRUE]

\* QueueBuffer attempting a playback start when the queue is full.
QueueBufferPlayOnFull(s, buffer) ==
    IF Len(s.queued_buffers) < MaxAudioBufferCount
    THEN [stream |-> PlayNextBuffer([s EXCEPT !.queued_buffers = Append(@, buffer)]),
          result |-> TRUE]
    ELSE [stream |-> PlayNextBuffer(s), result |-> FALSE]

QueueBuffer(s, buffer) ==
    IF Len(s.queued_buffers) < MaxAudioBufferCount
    THEN [stream |-> PlayNextBuffer([s EXCEPT !.queued_buffers = Append(@, buffer)]),
          result |-> TRUE]
    ELSE [stream |-> s, result |-> FALSE]

RECURSIVE GetTagsLoop(_, _, _, _)
GetTagsLoop(released, tags, count, max_count) ==
    IF count < max_count /\ released # <<>>
    THEN GetTagsLoop(Tail(released), Append(tags, Head(released).tag),
                     count + 1, max_count)
    ELSE [released |-> released, tags |-> tags]

GetTagsNoPop(s, max_count) ==
    LET r == GetTagsLoop(s.released_buffers, <<>>, 0, max_count)
    IN  [stream |-> s, tags |-> r.tags]

GetTagsAndReleaseBuffers(s, max_count) ==
    LET r == GetTagsLoop(s.released_buffers, <<>>, 0, max_count)
    IN  [stream |-> [s EXCEPT !.released_buffers = r.released], tags |-> r.tags]

Tags(buffers) == [i \in DOMAIN buffers |-> buffers[i].tag]

StreamEmpty(s) ==
    s.queued_buffers = <<>> /\ s.active_buffer = <<>> /\ s.released_buffers = <<>>


(***************************************************************************)
(* Wire structures (audio_renderer.h)                                      *)
(***************************************************************************)
SizeofUpdateDataHeader == 64
SizeofVoiceInfo == 368
SizeofChannelInfoIn == 112
SizeofMemoryPoolInfo == 32
SizeofEffectInStatus == 192

MemoryPoolStates ==
    {"Invalid", "Unknown", "RequestDetach", "Detached", "RequestAttach",
     "Attached", "Released"}

\* Common::MakeMagic: the four bytes of a u32_le, least significant first.
MakeMagic(a, b, c, d) == <<a, b, c, d>>

\* A u32 as two 16-bit halves (TLC's integers are 32-bit signed).
U32(hi, lo) == [hi |-> hi, lo |-> lo]

\* a - b in unsigned 32-bit arithmetic, for a, b < 2^16.
U32Sub(a, b) ==
    IF a >= b THEN U32(0, a - b) ELSE U32(65535, 65536 - (b - a))

\* x >= n for a u32 x and n < 2^16.
U32Geq(x, n) == x.hi > 0 \/ x.lo >= n

VersionFromRevisionSigned(rev) ==
    IF rev[4] >= 48 THEN U32(0, rev[4] - 48) ELSE U32(0, 0)

\* ((rev >> 24) & 0xff) - 0x30
VersionFromRevision(rev) == U32Sub(rev[4] % 256, 48)

UpdateDataHeaderRev5(config) ==
    [revision |-> MakeMagic(82, 69, 86, 53),
     behavior_size |-> 176,
     memory_pools_size |-> (config.effect_count + (config.voice_count * 4)) * 16,
     voices_size |-> config.voice_count * 16,
     voice_resource_size |-> 0,
     effects_size |-> config.effect_count * 16,
     mixes_size |-> 0,
     sinks_size |-> config.sink_count * 32,
     performance_manager_size |-> 16,
     frame_count |-> 0,
     total_size |-> 0]

\* UpdateDataHeader::UpdateDataHeader(const AudioRendererParameter&)
UpdateDataHeader(config) ==
    LET behavior_size == 176
        memory_pools_size == (config.effect_count + (config.voice_count * 4)) * 16
        voices_size == config.voice_count * 16
        effects_size == config.effect_count * 16
        sinks_size == config.sink_count * 32
        performance_manager_size == 16
    IN  [revision |-> MakeMagic(82, 69, 86, 52),
         behavior_size |-> behavior_size,
         memory_pools_size |-> memory_pools_size,
         voices_size |-> voices_size,
         voice_resource_size |-> 0,
         effects_size |-> effects_size,
         mixes_size |-> 0,
         sinks_size |-> sinks_size,
         performance_manager_size |-> performance_manager_size,
         frame_count |-> 0,
         total_size |-> SizeofUpdateDataHeader + behavior_size + memory_pools_size
                        + voices_size + effects_size + sinks_size
                        + performance_manager_size]

(***************************************************************************)
(* Guest memory: a fixed image.  Addresses below 512 read as zero; above,  *)
(* 16-bit samples repeat the pattern 20000, -20000, 300.                   *)
(***************************************************************************)
GuestS16(addr) ==
    IF addr < 512 THEN 0
    ELSE CASE (addr \div 2) % 3 = 0 -> 20000
           [] (addr \div 2) % 3 = 1 -> -20000
           [] OTHER -> 300

\* Memory::ReadBlock into a vector of s16: size bytes from addr.
ReadBlock(addr, size) ==
    [k \in 1..(size \div 2) |-> GuestS16(addr + 2 * (k - 1))]

\* Memory::Read32(addr) == 0
Read32IsZero(addr) == GuestS16(addr) = 0 /\ GuestS16(addr + 2) = 0

(***************************************************************************)
(* VoiceState                                                              *)
(***************************************************************************)
EmptyWaveBuffer ==
    [buffer_addr |-> 0, buffer_sz |-> 0, is_looping |-> FALSE,
     end_of_stream |-> FALSE]

\* VoiceInfo{}: every field zero (PlayState::Started is 0).
ZeroVoiceInfo ==
    [id |-> 0, is_new |-> FALSE, is_in_use |-> FALSE, play_state |-> "Started",
     sample_format |-> "Invalid", sample_rate |-> 0, channel_count |-> 0,
     volume |-> 0, wave_buffer_head |-> 0,
     wave_buffer |-> <<EmptyWaveBuffer, EmptyWaveBuffer, EmptyWaveBuffer,
                       EmptyWaveBuffer>>]

ZeroVoiceOutStatus ==
    [played_sample_count |-> 0, wave_buffer_consumed |-> 0,
     voice_drops_count |-> 0]

\* A VoiceState as its member initialisers leave it.
NewVoiceState ==
    [is_in_use |-> FALSE, is_refresh_pending |-> FALSE, wave_index |-> 0,
     offset |-> 0, interp_state |-> 0, samples |-> <<>>,
     out_status |-> ZeroVoiceOutStatus, info |-> ZeroVoiceInfo,
     oob_read |-> FALSE]

VoiceIsPlayingNotStopped(v) == v.is_in_use /\ v.info.play_state # "Stopped"

VoiceIsPlaying(v) == v.is_in_use /\ v.info.play_state = "Started"

\* SetWaveIndex without the mask.
SetWaveIndexNoMask(v, index) ==
    [v EXCEPT !.wave_index = index, !.is_refresh_pending = TRUE]

SetWaveIndexNoRefresh(v, index) == [v EXCEPT !.wave_index = index % 4]

\* index & 3
SetWaveIndex(v, index) ==
    [v EXCEPT !.wave_index = index % 4, !.is_refresh_pending = TRUE]

VoiceUpdateStateKeepStatus(v) ==
    LET reset == IF v.is_in_use /\ ~v.info.is_in_use
                 THEN [v EXCEPT !.is_refresh_pending = TRUE,
                                !.wave_index = 0,
                                !.offset = 0]
                 ELSE v
    IN  [reset EXCEPT !.is_in_use = v.info.is_in_use]

VoiceUpdateState(v) ==
    LET reset == IF v.is_in_use /\ ~v.info.is_in_use
                 THEN [v EXCEPT !.is_refresh_pending = TRUE,
                                !.wave_index = 0,
                                !.offset = 0,
                                !.out_status = ZeroVoiceOutStatus]
                 ELSE v
    IN  [reset EXCEPT !.is_in_use = v.info.is_in_use]

\* Interpolate(state, input, input_rate, output_rate): interleaved stereo
\* frames resampled by the ratio input_rate / output_rate, each output frame
\* taking the input frame its position falls in.  state is the phase left
\* from the previous call, in units of 1 / output_rate of an input frame;
\* the result carries the phase for the next call.
Interpolate(state, input, input_rate, output_rate) ==
    LET frames == Len(input) \div STREAM_NUM_CHANNELS
        span == frames * output_rate
        count == IF span > state
                 THEN (span - state + input_rate - 1) \div input_rate ELSE 0
    IN  [state |-> state + count * input_rate - span,
         samples |->
            [i \in 1..(count * STREAM_NUM_CHANNELS) |->
                input[((state + ((i - 1) \div STREAM_NUM_CHANNELS) * input_rate)
                          \div output_rate) * STREAM_NUM_CHANNELS
                      + ((i - 1) % STREAM_NUM_CHANNELS) + 1]]]

\* RefreshBuffer treating one channel like two.
RefreshBufferNoUpmix(v) ==
    LET wb == v.info.wave_buffer[v.wave_index + 1]
        raw == ReadBlock(wb.buffer_addr, wb.buffer_sz)
        resampled == IF v.info.sample_rate = STREAM_SAMPLE_RATE
                     THEN [state |-> v.interp_state, samples |-> raw]
                     ELSE Interpolate(v.interp_state, raw, v.info.sample_rate,
                                      STREAM_SAMPLE_RATE)
    IN  [v EXCEPT !.samples = resampled.samples,
                  !.interp_state = resampled.state,
                  !.is_refresh_pending = FALSE]

\* RefreshBuffer for PCM16 voices (no ADPCM decode).
RefreshBuffer(v) ==
    LET wb == v.info.wave_buffer[v.wave_index + 1]
        raw == ReadBlock(wb.buffer_addr, wb.buffer_sz)
        new_samples == CASE v.info.sample_format = "Int16" -> raw
        upmixed == CASE v.info.channel_count = 1 ->
                          [i \in 1..(2 * Len(new_samples)) |-> new_samples[(i + 1) \div 2]]
                     [] v.info.channel_count = 2 -> new_samples
                     [] OTHER -> v.samples
        resampled == IF v.info.sample_rate = STREAM_SAMPLE_RATE
                     THEN [state |-> v.interp_state, samples |-> upmixed]
                     ELSE Interpolate(v.interp_state, upmixed, v.info.sample_rate,
                                      STREAM_SAMPLE_RATE)
    IN  [v EXCEPT !.samples = resampled.samples,
                  !.interp_state = resampled.state,
                  !.is_refresh_pending = FALSE]

\* AdvanceWaveBuffer moving on from looping wave buffers too.
AdvanceWaveBufferLooping(v, wb) ==
    IF wb.buffer_sz # 0
    THEN SetWaveIndex(v, v.wave_index + 1) ELSE v

\* DequeueSamples, the body of "if (offset == samples.size())" after
\* "offset = 0", for the wave buffer wb that was current on entry:
\* the move to the next wave buffer,
AdvanceWaveBuffer(v, wb) ==
    IF ~wb.is_looping /\ wb.buffer_sz # 0
    THEN SetWaveIndex(v, v.wave_index + 1) ELSE v

\* the count of consumed buffers,
CountConsumed(v, wb) ==
    IF wb.buffer_sz # 0
    THEN [v EXCEPT !.out_status.wave_buffer_consumed = @ + 1] ELSE v

\* and the pause at the end of the stream.
PauseAtEnd(v, wb) ==
    IF wb.end_of_stream \/ wb.buffer_sz = 0
    THEN [v EXCEPT !.info.play_state = "Paused"] ELSE v

EndOfBuffer(v, wb) ==
    PauseAtEnd(CountConsumed(AdvanceWaveBuffer([v EXCEPT !.offset = 0], wb), wb), wb)

\* DequeueFromCache counting 16-bit samples instead of sample frames.
DequeueFromCacheCountSamples(v, sample_count) ==
    LET len == Len(v.samples)
        dequeue_offset == v.offset
        size == IF dequeue_offset > len THEN sample_count * STREAM_NUM_CHANNELS
                ELSE Min(sample_count * STREAM_NUM_CHANNELS, len - dequeue_offset)
        counted == [v EXCEPT !.out_status.played_sample_count = @ + size,
                             !.offset = dequeue_offset + size,
                             !.oob_read = @ \/ dequeue_offset + size > len]
    IN  [voice |-> IF dequeue_offset + size = len
                   THEN EndOfBuffer(counted, v.info.wave_buffer[v.wave_index + 1])
                   ELSE counted,
         samples |-> SubSeq(v.samples, dequeue_offset + 1,
                            Min(dequeue_offset + size, len))]

\* DequeueSamples once the voice is playing and its cache is refreshed.
\* max_size = samples.size() - offset is a size_t: it wraps when offset is
\* past the cache, and size is then the whole request.
DequeueFromCache(v, sample_count) ==
    LET len == Len(v.samples)
        dequeue_offset == v.offset
        size == IF dequeue_offset > len THEN sample_count * STREAM_NUM_CHANNELS
                ELSE Min(sample_count * STREAM_NUM_CHANNELS, len - dequeue_offset)
        counted == [v EXCEPT !.out_status.played_sample_count =
                                 @ + (size \div STREAM_NUM_CHANNELS),
                             !.offset = dequeue_offset + size,
                             !.oob_read = @ \/ dequeue_offset + size > len]
    IN  [voice |-> IF dequeue_offset + size = len
                   THEN EndOfBuffer(counted, v.info.wave_buffer[v.wave_index + 1])
                   ELSE counted,
         samples |-> SubSeq(v.samples, dequeue_offset + 1,
                            Min(dequeue_offset + size, len))]

DequeueSamplesUnchecked(v, sample_count) ==
    DequeueFromCache(IF v.is_refresh_pending THEN RefreshBuffer(v) ELSE v,
                     sample_count)

\* DequeueSamples: the voice afterwards and the samples returned.
DequeueSamples(v, sample_count) ==
    IF ~VoiceIsPlaying(v) THEN [voice |-> v, samples |-> <<>>]
    ELSE DequeueFromCache(IF v.is_refresh_pending THEN RefreshBuffer(v) ELSE v,
                          sample_count)

(***************************************************************************)
(* EffectState                                                             *)
(***************************************************************************)
ZeroAuxInfo ==
    [send_buffer_info |-> 0, send_buffer_base |-> 0,
     return_buffer_info |-> 0, return_buffer_base |-> 0]

ZeroEffectInStatus == [type |-> "None", is_new |-> FALSE, aux_info |-> ZeroAuxInfo]

NewEffectState ==
    [out_status |-> "None", info |-> ZeroEffectInStatus, assert_failed |-> FALSE]

\* UpdateState with an output status that follows is_new.
EffectUpdateStateFollowsNew(e) ==
    IF e.info.is_new THEN [e EXCEPT !.out_status = "New"]
    ELSE [e EXCEPT !.out_status = "None"]

\* UpdateState checking the aux buffer words of every effect.
EffectUpdateStateAlwaysChecks(e) ==
    LET checked == [e EXCEPT !.assert_failed =
                       @ \/ ~Read32IsZero(e.info.aux_info.return_buffer_info)
                         \/ ~Read32IsZero(e.info.aux_info.send_buffer_info)
                         \/ ~Read32IsZero(e.info.aux_info.return_buffer_base)
                         \/ ~Read32IsZero(e.info.aux_info.send_buffer_base)]
    IN  IF e.info.is_new THEN [checked EXCEPT !.out_status = "New"] ELSE checked

EffectUpdateState(e) ==
    IF e.info.is_new THEN [e EXCEPT !.out_status = "New"]
    ELSE IF e.info.type = "Aux"
         THEN [e EXCEPT !.assert_failed =
                   @ \/ ~Read32IsZero(e.info.aux_info.return_buffer_info)
                     \/ ~Read32IsZero(e.info.aux_info.send_buffer_info)
                     \/ ~Read32IsZero(e.info.aux_info.return_buffer_base)
                     \/ ~Read32IsZero(e.info.aux_info.send_buffer_base)]
         ELSE e


(***************************************************************************)
(* AudioRenderer.  A renderer value r has the fields worker_params,        *)
(* voices, effects, channels and stream, and beyond: what the memory past  *)
(* the end of the channels vector holds.                                   *)
(***************************************************************************)
\* A 16-bit truncation in place of the clamp (what a plain cast would do).
ClampToS16Wrap(value) == ((value + 32768) % 65536) - 32768

\* ClampToS16: std::clamp to the range of s16.
ClampToS16(value) == Min(Max(value, -32768), 32767)

\* The inner for loop of QueueMixedBuffer: the samples of one dequeue are
\* accumulated into buffer[offset..]; volume and mix gains are integers in
\* this model, so the float product is exact.
MixSamples(buffer, offset, samples, volume, mix) ==
    [i \in DOMAIN buffer |->
        IF i > offset /\ i <= offset + Len(samples)
        THEN ClampToS16(buffer[i] + samples[i - offset] * volume * mix[((i - 1) % 2) + 1])
        ELSE buffer[i]]

\* The while loop of QueueMixedBuffer for one voice: MixLoop is the loop
\* test and the dequeue, MixStep the rest of the loop body for the result d
\* of the dequeue.
RECURSIVE MixLoop(_, _, _, _, _)
RECURSIVE MixStep(_, _, _, _, _)
MixStep(d, buffer, offset, samples_remaining, chans) ==
    IF d.samples = <<>>
    THEN [voice |-> d.voice, buffer |-> buffer]
    ELSE MixLoop(d.voice,
                 MixSamples(buffer, offset, d.samples, d.voice.info.volume,
                            chans[d.voice.info.id + 1].mix),
                 offset + Len(d.samples),
                 samples_remaining - (Len(d.samples) \div STREAM_NUM_CHANNELS),
                 chans)

MixLoop(voice, buffer, offset, samples_remaining, chans) ==
    IF samples_remaining > 0
    THEN MixStep(DequeueSamples(voice, samples_remaining), buffer, offset,
                 samples_remaining, chans)
    ELSE [voice |-> voice, buffer |-> buffer]

\* The for loop over the voices of QueueMixedBuffer, from voice i on.
RECURSIVE MixVoices(_, _, _, _)
MixVoices(vs, i, buffer, chans) ==
    IF i > Len(vs) THEN [voices |-> vs, buffer |-> buffer]
    ELSE IF ~VoiceIsPlaying(vs[i]) THEN MixVoices(vs, i + 1, buffer, chans)
    ELSE LET m == MixLoop(vs[i], buffer, 0, BUFFER_SIZE, chans)
         IN  MixVoices([vs EXCEPT ![i] = m.voice], i + 1, m.buffer, chans)

\* AudioOut::QueueBuffer: wraps the samples in a Buffer and queues it; the
\* renderer ignores the result.
AudioOutQueueBuffer(s, tag, samples) == QueueBuffer(s, Buffer(tag, samples)).stream

\* AudioOut::StartStream
AudioOutStartStream(s) == Play(s)

\* What channels[id] denotes for every id a voice of r carries: the
\* elements of the vector, and past its end whatever the memory there holds
\* (r.beyond, read as a mix).
ChannelMemory(r) ==
    LET n == Len(r.channels)
        ends == {n} \cup {r.voices[i].info.id + 1 : i \in DOMAIN r.voices}
        top == CHOOSE e \in ends : \A other \in ends : other <= e
    IN  [i \in 1..top |->
            IF i <= n THEN r.channels[i]
            ELSE [id |-> 0, mix |-> r.beyond, overlay |-> FALSE]]

QueueMixedBuffer(r, tag) ==
    LET silence == [i \in 1..(BUFFER_SIZE * STREAM_NUM_CHANNELS) |-> 0]
        m == MixVoices(r.voices, 1, silence, ChannelMemory(r))
    IN  [r EXCEPT !.voices = m.voices,
                  !.stream = AudioOutQueueBuffer(r.stream, tag, m.buffer)]

RECURSIVE QueueMixedBuffers(_, _)
QueueMixedBuffers(r, tags) ==
    IF tags = <<>> THEN r
    ELSE QueueMixedBuffers(QueueMixedBuffer(r, Head(tags)), Tail(tags))

\* ReleaseAndQueueBuffers regenerating only the first tag it took back.
ReleaseAndQueueBuffersFirstOnly(r) ==
    LET g == GetTagsAndReleaseBuffers(r.stream, 2)
    IN  [renderer |-> QueueMixedBuffers([r EXCEPT !.stream = g.stream],
                                        SubSeq(g.tags, 1, Min(1, Len(g.tags)))),
         tags |-> g.tags]

ReleaseAndQueueBuffersKeep(r) ==
    LET g == GetTagsAndReleaseBuffers(r.stream, 2)
    IN  [renderer |-> QueueMixedBuffers(r, g.tags), tags |-> g.tags]

\* ReleaseAndQueueBuffers: the renderer afterwards and the tags regenerated.
ReleaseAndQueueBuffers(r) ==
    LET g == GetTagsAndReleaseBuffers(r.stream, 2)
    IN  [renderer |-> QueueMixedBuffers([r EXCEPT !.stream = g.stream], g.tags),
         tags |-> g.tags]

MemoryPoolCount(config) == config.effect_count + (config.voice_count * 4)

UpdateMemoryPoolSwapped(mem_pool_info) ==
    [index \in DOMAIN mem_pool_info |->
        IF mem_pool_info[index] = "RequestAttach" THEN "Detached"
        ELSE IF mem_pool_info[index] = "RequestDetach" THEN "Attached"
        ELSE "Invalid"]

\* "Update memory pool state": a fresh vector of MemoryPoolEntry (state
\* Invalid) with the attach/detach requests applied.
UpdateMemoryPool(mem_pool_info) ==
    [index \in DOMAIN mem_pool_info |->
        IF mem_pool_info[index] = "RequestAttach" THEN "Attached"
        ELSE IF mem_pool_info[index] = "RequestDetach" THEN "Detached"
        ELSE "Invalid"]

\* channels.resize(...) and the copy of the ChannelInfoIn structs.  Entries
\* past the request's voice-resource section are read from the bytes of the
\* voice section that follows it.
ParseChannels(config, input) ==
    LET channel_offset == SizeofUpdateDataHeader + input.behavior_size
                          + input.memory_pools_size
        voice_offset == channel_offset + input.voice_resource_size
                        + config.voice_count * SizeofVoiceInfo
        count == (voice_offset - channel_offset) \div SizeofChannelInfoIn
    IN  [i \in 1..count |->
            IF i <= Len(input.channel_info)
            THEN [id |-> input.channel_info[i].id, mix |-> input.channel_info[i].mix,
                  overlay |-> FALSE]
            ELSE [id |-> 0, mix |-> <<0, 0>>, overlay |-> TRUE]]

UpdateVoiceNew(v, info) ==
    LET parsed == [v EXCEPT !.info = info]
        updated == VoiceUpdateState(parsed)
    IN  IF updated.info.is_new
        THEN SetWaveIndex(updated, updated.info.wave_buffer_head)
        ELSE updated

\* "Update voices"
UpdateVoice(v, info) ==
    LET parsed == [v EXCEPT !.info = info]
        updated == VoiceUpdateState(parsed)
    IN  IF ~updated.info.is_in_use THEN updated
        ELSE IF updated.info.is_new
             THEN SetWaveIndex(updated, updated.info.wave_buffer_head)
             ELSE updated

\* "Copy output header": the header written and the size the blob was
\* allocated with.
ResponseHeader(config, revision) ==
    LET response_data == UpdateDataHeader(config)
        audren_revision == VersionFromRevision(revision)
    IN  [size |-> response_data.total_size,
         header |-> IF U32Geq(audren_revision, 5)
                    THEN [response_data EXCEPT !.frame_count = 16,
                                               !.total_size = @ + 16]
                    ELSE response_data]

\* UpdateAudioRenderer on a well-formed request: the renderer afterwards,
\* the response, and the tags regenerated by ReleaseAndQueueBuffers.
UpdateAudioRenderer(r, input) ==
    LET config == r.worker_params
        memory_pool == UpdateMemoryPool(input.mem_pool_info)
        r1 == [r EXCEPT
                 !.voices = [i \in DOMAIN r.voices |->
                                UpdateVoice(r.voices[i], input.voice_info[i])],
                 !.channels = ParseChannels(config, input),
                 !.effects = [i \in DOMAIN r.effects |->
                                EffectUpdateState([r.effects[i] EXCEPT
                                                     !.info = input.effect_info[i]])]]
        q == ReleaseAndQueueBuffers(r1)
        r2 == q.renderer
        resp == ResponseHeader(config, input.revision)
    IN  [renderer |-> r2,
         tags |-> q.tags,
         output |-> [size |-> resp.size,
                     header |-> resp.header,
                     memory_pool |-> memory_pool,
                     voice_out |-> [i \in DOMAIN r2.voices |-> r2.voices[i].out_status],
                     effect_out |-> [i \in DOMAIN r2.effects |-> r2.effects[i].out_status]]]

\* AudioRenderer::AudioRenderer
NewRenderer(params) ==
    LET r0 == [worker_params |-> params,
               voices |-> [i \in 1..params.voice_count |-> NewVoiceState],
               effects |-> [i \in 1..params.effect_count |-> NewEffectState],
               channels |-> <<>>,
               beyond |-> <<0, 0>>,
               stream |-> AudioOutStartStream(NewStream)]
    IN  QueueMixedBuffer(QueueMixedBuffer(QueueMixedBuffer(r0, 0), 1), 2)


(***************************************************************************)
(* Requests the guest sends.  A request is well formed: its section sizes  *)
(* agree with the sections it carries and with the configured counts.      *)
(***************************************************************************)
Config(voice_count, effect_count, sink_count) ==
    [voice_count |-> voice_count, effect_count |-> effect_count,
     sink_count |-> sink_count]

\* The configurations of the model: no voice, effect or sink at all, and
\* each count varied with the other two at 1.
Configs ==
    {Config(0, 0, 0)}
    \cup {Config(n, 1, 1) : n \in 0..MaxVoices}
    \cup {Config(1, n, 1) : n \in 0..MaxEffects}
    \cup {Config(1, 1, n) : n \in 0..MaxSinks}

\* "REV4", "REV5", "REV9", and a revision whose top byte is below '0'
Revisions ==
    {MakeMagic(82, 69, 86, 52), MakeMagic(82, 69, 86, 53),
     MakeMagic(82, 69, 86, 57), MakeMagic(82, 69, 86, 0)}

\* A stereo PCM16 voice at 48000 Hz whose wave buffer 0 holds three silent
\* sample frames, not looping, end of stream.
VoiceRequest(is_new, play_state) ==
    [ZeroVoiceInfo EXCEPT
        !.is_new = is_new, !.is_in_use = TRUE, !.play_state = play_state,
        !.sample_format = "Int16", !.sample_rate = STREAM_SAMPLE_RATE,
        !.channel_count = 2, !.volume = 1,
        !.wave_buffer[1] = [buffer_addr |-> 256, buffer_sz |-> 12,
                            is_looping |-> FALSE, end_of_stream |-> TRUE]]

VoiceRequests == {VoiceRequest(TRUE, "Started")}

EffectRequests ==
    {[ZeroEffectInStatus EXCEPT !.is_new = TRUE],
     [ZeroEffectInStatus EXCEPT !.type = "Aux"]}

\* size is the length of the blob in bytes; the other fields are the header
\* and the sections the blob carries, in the order of the wire layout.
BaseInput(config) ==
    [size |-> SizeofUpdateDataHeader + 176
              + MemoryPoolCount(config) * SizeofMemoryPoolInfo
              + SizeofChannelInfoIn
              + config.voice_count * SizeofVoiceInfo
              + config.effect_count * SizeofEffectInStatus,
     revision |-> MakeMagic(82, 69, 86, 52),
     behavior_size |-> 176,
     memory_pools_size |-> MemoryPoolCount(config) * SizeofMemoryPoolInfo,
     voice_resource_size |-> SizeofChannelInfoIn,
     voices_size |-> config.voice_count * SizeofVoiceInfo,
     mem_pool_info |-> [i \in 1..MemoryPoolCount(config) |-> "Invalid"],
     voice_info |-> [i \in 1..config.voice_count |-> ZeroVoiceInfo],
     channel_info |-> <<[id |-> 0, mix |-> <<1, 1>>]>>,
     effect_info |-> [i \in 1..config.effect_count |-> ZeroEffectInStatus]]

\* The base request cut short of the last struct UpdateAudioRenderer copies
\* from it.
TruncatedInput(config) ==
    [BaseInput(config) EXCEPT
        !.size = @ - (IF config.effect_count > 0 THEN SizeofEffectInStatus
                      ELSE IF config.voice_count > 0 THEN SizeofVoiceInfo
                      ELSE SizeofChannelInfoIn)]

\* The base request with every voice in use, new and Started, carrying as
\* its id the number of channels the renderer will hold: one past the last
\* index of its channel list.
OutOfRangeInput(config) ==
    [BaseInput(config) EXCEPT
        !.voice_info =
            [i \in 1..config.voice_count |->
                [VoiceRequest(TRUE, "Started") EXCEPT
                    !.id = (SizeofChannelInfoIn
                            + config.voice_count * SizeofVoiceInfo)
                           \div SizeofChannelInfoIn]]]

\* The base request with a header that declares an empty voice section.
MismatchedInput(config) == [BaseInput(config) EXCEPT !.voices_size = 0]

\* The requests of the model: the base request with its revision, one
\* memory-pool slot, one voice or one effect changed, cut short, or with a
\* header that disagrees with the configured voice count.
Inputs(config) ==
    {[BaseInput(config) EXCEPT !.revision = rev] : rev \in Revisions}
    \cup {TruncatedInput(config), MismatchedInput(config),
          OutOfRangeInput(config)}
    \cup {[BaseInput(config) EXCEPT !.mem_pool_info[i] = st] :
            i \in {1, MemoryPoolCount(config)} \cap 1..MemoryPoolCount(config),
            st \in MemoryPoolStates}
    \cup {[BaseInput(config) EXCEPT !.voice_info[i] = vr] :
            i \in 1..config.voice_count, vr \in VoiceRequests}
    \cup {[BaseInput(config) EXCEPT !.effect_info[i] = er] :
            i \in 1..config.effect_count, er \in EffectRequests}

(***************************************************************************)
(* What the memcpy calls of UpdateAudioRenderer read.  The blob holds its  *)
(* header, behaviour section, memory-pool infos, channel infos, voice      *)
(* infos and effect infos back to back; the code computes its offsets from *)
(* the header fields of the request and from the configured counts.        *)
(***************************************************************************)
\* Where the sections lie in the blob.
ChannelSectionAt(input) ==
    SizeofUpdateDataHeader + input.behavior_size
    + Len(input.mem_pool_info) * SizeofMemoryPoolInfo
VoiceSectionAt(input) ==
    ChannelSectionAt(input) + Len(input.channel_info) * SizeofChannelInfoIn
EffectSectionAt(input) ==
    VoiceSectionAt(input) + Len(input.voice_info) * SizeofVoiceInfo

\* channel_offset, voice_offset and effect_offset as the code computes them.
ChannelOffset(input) ==
    SizeofUpdateDataHeader + input.behavior_size + input.memory_pools_size
VoiceOffset(input) == ChannelOffset(input) + input.voice_resource_size
EffectOffset(input) == VoiceOffset(input) + input.voices_size

\* The number of channels after channels.resize.
ChannelCount(config, input) ==
    (VoiceOffset(input) + config.voice_count * SizeofVoiceInfo
     - ChannelOffset(input)) \div SizeofChannelInfoIn

\* One past the last byte of the blob that UpdateAudioRenderer reads.
ReadEnd(config, input) ==
    LET pools == IF MemoryPoolCount(config) > 0
                 THEN SizeofUpdateDataHeader + input.behavior_size
                      + MemoryPoolCount(config) * SizeofMemoryPoolInfo
                 ELSE 0
        voices_end == IF config.voice_count > 0
                      THEN VoiceOffset(input) + config.voice_count * SizeofVoiceInfo
                      ELSE 0
        channels_end == IF ChannelCount(config, input) > 0
                        THEN ChannelOffset(input)
                             + ChannelCount(config, input) * SizeofChannelInfoIn
                        ELSE 0
        effects_end == IF config.effect_count > 0
                       THEN EffectOffset(input)
                            + config.effect_count * SizeofEffectInStatus
                       ELSE 0
    IN  Max(Max(SizeofUpdateDataHeader, pools),
            Max(Max(voices_end, channels_end), effects_end))

\* The i-th struct of a section is copied as the guest sent it when the
\* copy starts where the blob holds that struct and ends inside the blob.
CopiedAsSent(input, offset, at, i, sizeof) ==
    /\ offset = at
    /\ offset + i * sizeof <= input.size

\* What a copy from outside the blob, or from bytes that hold something
\* else, may leave in a VoiceInfo, an EffectInStatus or a channel's mix.
StrayVoiceInfos == {ZeroVoiceInfo} \cup VoiceRequests
StrayEffectInfos == {ZeroEffectInStatus} \cup EffectRequests
StrayMixes == {<<0, 0>>, <<1, 1>>}

\* What the memory past the end of the channels vector may hold during the
\* call that sees the request seen; it is read only when a voice carries an
\* id that is no index of the vector.
BeyondChannels(config, seen) ==
    IF \E i \in DOMAIN seen.voice_info :
           seen.voice_info[i].id >= ChannelCount(config, seen)
    THEN StrayMixes ELSE {<<0, 0>>}

\* The requests UpdateAudioRenderer may see when it is handed input: input
\* itself when every copy finds the struct it expects, and otherwise input
\* with any stray value in place of each struct that was not copied as sent.
Parsed(config, input) ==
    {[input EXCEPT !.voice_info = voice_info, !.effect_info = effect_info,
                   !.channel_info = channel_info] :
        voice_info \in
            {f \in [DOMAIN input.voice_info ->
                       StrayVoiceInfos \cup
                       {input.voice_info[i] : i \in DOMAIN input.voice_info}] :
                \A i \in DOMAIN f :
                    CopiedAsSent(input, VoiceOffset(input),
                                 VoiceSectionAt(input), i, SizeofVoiceInfo)
                    => f[i] = input.voice_info[i]},
        effect_info \in
            {f \in [DOMAIN input.effect_info ->
                       StrayEffectInfos \cup
                       {input.effect_info[i] : i \in DOMAIN input.effect_info}] :
                \A i \in DOMAIN f :
                    CopiedAsSent(input, EffectOffset(input),
                                 EffectSectionAt(input), i, SizeofEffectInStatus)
                    => f[i] = input.effect_info[i]},
        channel_info \in
            {f \in [DOMAIN input.channel_info ->
                       [id : {0}, mix : StrayMixes] \cup
                       {input.channel_info[i] : i \in DOMAIN input.channel_info}] :
                \A i \in DOMAIN f :
                    CopiedAsSent(input, ChannelOffset(input),
                                 ChannelSectionAt(input), i, SizeofChannelInfoIn)
                    => f[i] = input.channel_info[i]}}

(***************************************************************************)
(* History variables                                                       *)
(***************************************************************************)
NoRet ==
    [op |-> "None", result |-> FALSE, tags |-> <<>>, max_count |-> 0,
     was_empty |-> FALSE, signals |-> 0, before |-> <<>>, mid |-> <<>>,
     sample_count |-> 0, samples |-> <<>>, mixed |-> {}]

NoHist ==
    [accepted |-> <<>>, activated |-> <<>>, released |-> <<>>,
     returned |-> <<>>, qrun |-> 0]

RendererTags == {0, 1, 2}

\* owed[t]: releases of tag t not yet regenerated.  fed: every update so
\* far described each voice as VoiceRequest(TRUE, "Started").
NoRHist == [owed |-> [t \in RendererTags |-> 0], fed |-> TRUE]

\* The longest run of QueueBuffer calls the history counts
RunLimit == MaxAudioBufferCount + 2

\* hist after operation op took the stream from s to s2
HistAfter(op, s, s2, accepted, returned) ==
    [accepted |-> hist.accepted \o accepted,
     activated |->
        IF s2.active_buffer # <<>> /\ (s.active_buffer = <<>> \/ op = "Release")
        THEN Append(hist.activated, s2.active_buffer[1].tag)
        ELSE hist.activated,
     released |->
        IF Len(s2.released_buffers) > Len(s.released_buffers)
        THEN Append(hist.released,
                    s2.released_buffers[Len(s2.released_buffers)].tag)
        ELSE hist.released,
     returned |-> hist.returned \o returned,
     qrun |->
        IF StreamEmpty(s2) THEN 0
        ELSE IF op = "QueueBuffer"
             THEN (IF hist.qrun >= 0 /\ hist.qrun < RunLimit
                   THEN hist.qrun + 1 ELSE -1)
             ELSE IF op = "GetTags" THEN hist.qrun
             ELSE -1]

(***************************************************************************)
(* The renderer: construction, UpdateAudioRenderer calls and release       *)
(* events of the timer, on one thread.                                     *)
(***************************************************************************)
Renderer ==
    [worker_params |-> worker_params, voices |-> voices, effects |-> effects,
     channels |-> channels, beyond |-> <<0, 0>>, stream |-> stream]

Init ==
    \E params \in Configs :
        LET r == NewRenderer(params)
        IN  /\ worker_params = params
            /\ voices = r.voices
            /\ effects = r.effects
            /\ channels = r.channels
            /\ stream = r.stream
            /\ buffer_event = FALSE
            /\ input_params = <<>>
            /\ output_params = <<>>
            /\ ret = NoRet
            /\ hist = NoHist
            /\ rhist = NoRHist

RECURSIVE CountIn(_, _)
CountIn(seq, x) ==
    IF seq = <<>> THEN 0
    ELSE (IF Head(seq) = x THEN 1 ELSE 0) + CountIn(Tail(seq), x)

\* The voices QueueMixedBuffer mixes in an UpdateAudioRenderer call that
\* sees the request seen and regenerates the frames tags: those that are
\* playing once the voice section is parsed.
MixedVoices(seen, tags) ==
    IF tags = <<>> THEN {}
    ELSE {i \in DOMAIN voices :
            VoiceIsPlaying(UpdateVoice(voices[i], seen.voice_info[i]))}

\* An UpdateAudioRenderer call with the blob input; seen is what the copies
\* out of the blob produced.
UpdateWith(input) ==
    \E seen \in Parsed(worker_params, input) :
     \E beyond \in BeyondChannels(worker_params, seen) :
      \E u \in {UpdateAudioRenderer([Renderer EXCEPT !.beyond = beyond], seen)} :
        /\ \A i \in DOMAIN u.renderer.voices :
             u.renderer.voices[i].out_status.played_sample_count <= MaxPlayed
        /\ voices' = u.renderer.voices
        /\ effects' = u.renderer.effects
        /\ channels' = u.renderer.channels
        /\ stream' = [u.renderer.stream EXCEPT !.callbacks = 0]
        /\ input_params' = <<input>>
        /\ output_params' = <<u.output>>
        /\ ret' = [NoRet EXCEPT !.op = "UpdateAudioRenderer",
                                !.tags = u.tags,
                                !.signals = u.renderer.stream.callbacks,
                                !.mixed = MixedVoices(seen, u.tags)]
        /\ buffer_event' = (buffer_event \/ u.renderer.stream.callbacks > 0)
        /\ rhist' = [owed |-> [t \in RendererTags |->
                                  rhist.owed[t] - CountIn(u.tags, t)],
                     fed |-> rhist.fed
                             /\ \A i \in DOMAIN seen.voice_info :
                                   seen.voice_info[i]
                                      = VoiceRequest(TRUE, "Started")]
        /\ UNCHANGED <<worker_params, hist>>

Update == \E input \in Inputs(worker_params) : UpdateWith(input)

\* The release event fires: Stream::ReleaseActiveBuffer, whose release
\* callback signals buffer_event.
ReleaseEvent ==
    /\ stream.events > 0
    /\ \E s \in {[stream EXCEPT !.events = @ - 1]},
          s2 \in {ReleaseActiveBuffer([stream EXCEPT !.events = @ - 1])} :
           /\ stream' = [s2 EXCEPT !.callbacks = 0]
           /\ buffer_event' = (buffer_event \/ s2.callbacks > 0)
           /\ ret' = [NoRet EXCEPT !.op = "ReleaseActiveBuffer",
                                   !.signals = s2.callbacks]
           /\ rhist' = [rhist EXCEPT !.owed = [t \in RendererTags |->
                                     IF s.active_buffer # <<>> /\ s.active_buffer[1].tag = t
                                     THEN rhist.owed[t] + 1 ELSE rhist.owed[t]]]
    /\ UNCHANGED <<worker_params, voices, effects, channels, input_params,
                   output_params, hist>>

Next == Update \/ ReleaseEvent

Spec == Init /\ [][Next]_vars

(***************************************************************************)
(* The stream on its own: any interleaving of Play, Stop, QueueBuffer,     *)
(* GetTagsAndReleaseBuffers and release events.  The k-th accepted buffer  *)
(* carries tag k - 1.                                                      *)
(***************************************************************************)
StreamInit ==
    /\ stream = NewStream
    /\ buffer_event = FALSE
    /\ worker_params = [voice_count |-> 0, effect_count |-> 0, sink_count |-> 0]
    /\ voices = <<>>
    /\ effects = <<>>
    /\ channels = <<>>
    /\ input_params = <<>>
    /\ output_params = <<>>
    /\ ret = NoRet
    /\ hist = NoHist
    /\ rhist = NoRHist

RendererUnchanged ==
    UNCHANGED <<worker_params, voices, effects, channels, input_params,
                output_params, rhist>>

SPlay ==
    /\ stream' = Play(stream)
    /\ hist' = HistAfter("Play", stream, stream', <<>>, <<>>)
    /\ ret' = [NoRet EXCEPT !.op = "Play"]
    /\ UNCHANGED buffer_event
    /\ RendererUnchanged

SStop ==
    /\ stream' = Stop(stream)
    /\ hist' = HistAfter("Stop", stream, stream', <<>>, <<>>)
    /\ ret' = [NoRet EXCEPT !.op = "Stop"]
    /\ UNCHANGED buffer_event
    /\ RendererUnchanged

SQueueBuffer ==
    /\ Len(hist.accepted) < MaxAccepted
    /\ \E q \in {QueueBuffer(stream, Buffer(Len(hist.accepted), <<>>))} :
           /\ stream' = q.stream
           /\ hist' = HistAfter("QueueBuffer", stream, q.stream,
                                IF q.result THEN <<Len(hist.accepted)>> ELSE <<>>,
                                <<>>)
           /\ ret' = [NoRet EXCEPT !.op = "QueueBuffer", !.result = q.result]
    /\ UNCHANGED buffer_event
    /\ RendererUnchanged

SReleaseEvent ==
    /\ stream.events > 0
    /\ \E s \in {[stream EXCEPT !.events = @ - 1]},
          s2 \in {ReleaseActiveBuffer([stream EXCEPT !.events = @ - 1])} :
           /\ stream' = [s2 EXCEPT !.callbacks = 0]
           /\ hist' = HistAfter("Release", s, stream', <<>>, <<>>)
           /\ buffer_event' = (buffer_event \/ s2.callbacks > 0)
           /\ ret' = [NoRet EXCEPT !.op = "ReleaseActiveBuffer",
                                   !.signals = s2.callbacks]
    /\ RendererUnchanged

SGetTags ==
    \E max_count \in 0..MaxCount :
        \E g \in {GetTagsAndReleaseBuffers(stream, max_count)} :
            /\ stream' = g.stream
            /\ hist' = HistAfter("GetTags", stream, g.stream, <<>>, g.tags)
            /\ ret' = [NoRet EXCEPT !.op = "GetTagsAndReleaseBuffers",
                                    !.tags = g.tags, !.max_count = max_count,
                                    !.was_empty = (stream.released_buffers = <<>>)]
            /\ UNCHANGED buffer_event
            /\ RendererUnchanged

StreamNext == SPlay \/ SStop \/ SQueueBuffer \/ SReleaseEvent \/ SGetTags

StreamSpec == StreamInit /\ [][StreamNext]_vars

\* The stream with a timer that fires every event it was given: each
\* scheduled release event eventually fires.  QueueBuffer is offered
\* MaxLive buffers.
LQueueBuffer == Len(hist.accepted) < MaxLive /\ SQueueBuffer

LiveNext == SPlay \/ SStop \/ LQueueBuffer \/ SReleaseEvent \/ SGetTags

LiveSpec == StreamInit /\ [][LiveNext]_vars /\ WF_vars(SReleaseEvent)


(***************************************************************************)
(* One voice on its own: the per-voice part of an update, IsPlaying and    *)
(* DequeueSamples, on voice descriptions drawn from VoiceInfos.  ret keeps *)
(* the voice before the operation, and for an update the voice between    *)
(* UpdateState and SetWaveIndex; hist is a record of two history fields.   *)
(***************************************************************************)
PlayStates == {"Started", "Stopped", "Paused"}

\* The wave buffers of a voice description, in audible guest memory: two
\* sample frames ending the stream, one sample frame looping, none, one
\* sample frame.
WaveBuffers ==
    <<[buffer_addr |-> 516, buffer_sz |-> 8, is_looping |-> FALSE,
       end_of_stream |-> TRUE],
      [buffer_addr |-> 524, buffer_sz |-> 4, is_looping |-> TRUE,
       end_of_stream |-> FALSE],
      EmptyWaveBuffer,
      [buffer_addr |-> 512, buffer_sz |-> 4, is_looping |-> FALSE,
       end_of_stream |-> FALSE]>>

VoiceInfo(is_new, is_in_use, play_state, head) ==
    [ZeroVoiceInfo EXCEPT
        !.is_new = is_new, !.is_in_use = is_in_use, !.play_state = play_state,
        !.sample_format = "Int16", !.sample_rate = STREAM_SAMPLE_RATE,
        !.channel_count = 2, !.volume = 1, !.wave_buffer_head = head,
        !.wave_buffer = WaveBuffers]

\* A description that starts at wave buffer 1, looping, and marks it as
\* the end of the stream as well.
LoopingEndVoiceInfo ==
    [VoiceInfo(TRUE, TRUE, "Started", 1) EXCEPT
        !.wave_buffer[2].end_of_stream = TRUE]

\* The voice descriptions a request may carry: stereo PCM16 at 48000 Hz,
\* Started with every is_new, is_in_use and head, or in use and not Started,
\* or looping at the end of the stream.
VoiceInfos ==
    {VoiceInfo(is_new, is_in_use, "Started", head) :
        is_new \in BOOLEAN, is_in_use \in BOOLEAN, head \in 0..MaxHead}
    \cup {VoiceInfo(FALSE, TRUE, play_state, 0) : play_state \in PlayStates}
    \cup {LoopingEndVoiceInfo}

\* fresh: no update has described the voice as in use and new, and
\* DequeueSamples has not been called on it while it was playing.
NoVoiceHist == [fresh |-> TRUE]

\* What ret.before keeps of the voice v an operation started from.
Observed(v) ==
    [v EXCEPT !.info = [play_state |-> v.info.play_state,
                        wave_buffer |-> v.info.wave_buffer[v.wave_index + 1]]]

VoiceInit ==
    /\ stream = NewStream
    /\ buffer_event = FALSE
    /\ worker_params = Config(1, 0, 0)
    /\ voices = <<NewVoiceState>>
    /\ effects = <<>>
    /\ channels = <<>>
    /\ input_params = <<>>
    /\ output_params = <<>>
    /\ ret = NoRet
    /\ hist = NoVoiceHist
    /\ rhist = NoRHist

VoiceRest ==
    UNCHANGED <<stream, buffer_event, worker_params, effects, channels,
                input_params, output_params, rhist>>

\* The part of UpdateAudioRenderer that concerns one voice.  Once a
\* DequeueSamples call has read outside the cache (oob_read) the behaviour
\* of the program is undefined and the voice is followed no further.
VUpdate ==
    /\ ~voices[1].oob_read
    /\ \E info \in VoiceInfos :
           \E u \in {UpdateVoice(voices[1], info)} :
               /\ voices' = <<u>>
               /\ ret' = [NoRet EXCEPT
                            !.op = "UpdateVoice",
                            !.result = hist.fresh,
                            !.before = <<Observed(voices[1])>>,
                            !.mid = <<Observed(VoiceUpdateState(
                                        [voices[1] EXCEPT !.info = info]))>>]
               /\ hist' = [fresh |-> hist.fresh
                                     /\ ~(info.is_new /\ info.is_in_use)]
    /\ VoiceRest

VIsPlaying ==
    /\ ret' = [NoRet EXCEPT !.op = "IsPlaying",
                            !.result = VoiceIsPlaying(voices[1])]
    /\ UNCHANGED <<voices, hist>>
    /\ VoiceRest

\* DequeueSamples; ret.result tells whether the voice was fresh.
VDequeue ==
    /\ ~voices[1].oob_read
    /\ \E sample_count \in 1..MaxSampleCount :
           \E d \in {DequeueSamples(voices[1], sample_count)} :
               /\ d.voice.out_status.played_sample_count <= MaxDequeued
               /\ d.voice.out_status.wave_buffer_consumed <= MaxDequeued
               /\ voices' = <<d.voice>>
               /\ ret' = [NoRet EXCEPT !.op = "DequeueSamples",
                                       !.result = hist.fresh,
                                       !.before = <<Observed(voices[1])>>,
                                       !.sample_count = sample_count,
                                       !.samples = d.samples]
               /\ hist' = [fresh |-> hist.fresh /\ ~VoiceIsPlaying(voices[1])]
    /\ VoiceRest

VoiceNext == VUpdate \/ VIsPlaying \/ VDequeue

VoiceSpec == VoiceInit /\ [][VoiceNext]_vars

(***************************************************************************)
(* RefreshBuffer on its own: a voice in use with a refresh pending, drawn  *)
(* from RefreshVoices, is refreshed, and SetWaveIndex selects another wave *)
(* buffer.                                                                 *)
(***************************************************************************)
\* Wave buffers of four, one, no and three 16-bit samples.
RefreshWaveBuffers ==
    <<[buffer_addr |-> 516, buffer_sz |-> 8, is_looping |-> FALSE,
       end_of_stream |-> FALSE],
      [buffer_addr |-> 524, buffer_sz |-> 2, is_looping |-> TRUE,
       end_of_stream |-> FALSE],
      EmptyWaveBuffer,
      [buffer_addr |-> 512, buffer_sz |-> 6, is_looping |-> FALSE,
       end_of_stream |-> TRUE]>>

\* PCM16 voices with one or two channels, at the stream's rate or at
\* 32000 Hz, with or without a phase and a cache left from earlier buffers.
RefreshVoices ==
    {[NewVoiceState EXCEPT
        !.is_in_use = TRUE, !.is_refresh_pending = TRUE,
        !.wave_index = wave_index, !.interp_state = fraction,
        !.samples = samples,
        !.info = [ZeroVoiceInfo EXCEPT
                    !.is_in_use = TRUE, !.sample_format = "Int16",
                    !.sample_rate = sample_rate,
                    !.channel_count = channel_count, !.volume = 1,
                    !.wave_buffer = RefreshWaveBuffers]] :
        wave_index \in 0..3, fraction \in {0, 16000},
        samples \in {<<>>, <<7, 7>>},
        sample_rate \in {STREAM_SAMPLE_RATE, 32000},
        channel_count \in {1, 2}}

RefreshInit ==
    /\ stream = NewStream
    /\ buffer_event = FALSE
    /\ worker_params = Config(1, 0, 0)
    /\ voices \in {<<v>> : v \in RefreshVoices}
    /\ effects = <<>>
    /\ channels = <<>>
    /\ input_params = <<>>
    /\ output_params = <<>>
    /\ ret = NoRet
    /\ hist = NoHist
    /\ rhist = NoRHist

RRefresh ==
    /\ voices' = <<RefreshBuffer(voices[1])>>
    /\ ret' = [NoRet EXCEPT !.op = "RefreshBuffer",
                            !.before = <<Observed(voices[1])>>]
    /\ UNCHANGED hist
    /\ VoiceRest

RSetWaveIndex ==
    /\ \E index \in 0..MaxHead : voices' = <<SetWaveIndex(voices[1], index)>>
    /\ ret' = [NoRet EXCEPT !.op = "SetWaveIndex"]
    /\ UNCHANGED hist
    /\ VoiceRest

RefreshNext == RRefresh \/ RSetWaveIndex

RefreshSpec == RefreshInit /\ [][RefreshNext]_vars

(***************************************************************************)
(* One effect on its own: the per-effect part of an update, on effect      *)
(* descriptions drawn from EffectInfos.  ret.before keeps the output       *)
(* status and the assertion flag the update started from.                  *)
(***************************************************************************)
\* Effect descriptions of either type, new or not, each aux buffer word at
\* an address that reads as zero or at one that does not.
EffectInfos ==
    [type : {"None", "Aux"}, is_new : BOOLEAN,
     aux_info : [send_buffer_info : {0, 512}, send_buffer_base : {0, 512},
                 return_buffer_info : {0, 512}, return_buffer_base : {0, 512}]]

EffectInit ==
    /\ stream = NewStream
    /\ buffer_event = FALSE
    /\ worker_params = Config(0, 1, 0)
    /\ voices = <<>>
    /\ effects = <<NewEffectState>>
    /\ channels = <<>>
    /\ input_params = <<>>
    /\ output_params = <<>>
    /\ ret = NoRet
    /\ hist = NoHist
    /\ rhist = NoRHist

\* The part of UpdateAudioRenderer that concerns one effect.
EUpdate ==
    /\ \E info \in EffectInfos :
           effects' = <<EffectUpdateState([effects[1] EXCEPT !.info = info])>>
    /\ ret' = [NoRet EXCEPT
                 !.op = "UpdateEffect",
                 !.before = <<[out_status |-> effects[1].out_status,
                               assert_failed |-> effects[1].assert_failed]>>]
    /\ UNCHANGED <<stream, buffer_event, worker_params, voices, channels,
                   input_params, output_params, hist, rhist>>

EffectNext == EUpdate

EffectSpec == EffectInit /\ [][EffectNext]_vars

(***************************************************************************)
(* The per-voice loop of QueueMixedBuffer, one iteration at a time, for    *)
(* one voice mixed into frame after frame.  hist holds the position of the *)
(* loop (pc), its locals samples_remaining and offset, the frame buffer,   *)
(* and whether a write went past the end of the frame buffer.  The u64 and *)
(* u32 counters of out_status, which the loop never reads, are kept modulo *)
(* MaxPlayed + 1.                                                          *)
(***************************************************************************)
FrameLength == BUFFER_SIZE * STREAM_NUM_CHANNELS

\* A wave buffer of sz bytes.
FrameWaveBuffer(sz, is_looping, end_of_stream) ==
    [buffer_addr |-> 516, buffer_sz |-> sz, is_looping |-> is_looping,
     end_of_stream |-> end_of_stream]

\* Four wave buffers of one kind: one, two, three or four samples, looping
\* or not, ending the stream or not, or none at all; and a mix of kinds.
FrameWaveBufferLists ==
    {[i \in 1..4 |-> FrameWaveBuffer(sz, is_looping, end_of_stream)] :
        sz \in {0, 2, 4, 6, 8}, is_looping \in BOOLEAN,
        end_of_stream \in BOOLEAN}
    \cup {RefreshWaveBuffers}

\* Stereo PCM16 voices at the stream's rate, in use, Started, flagged new
\* by the update before the frame.
FrameVoices ==
    {[NewVoiceState EXCEPT
        !.is_in_use = TRUE, !.is_refresh_pending = TRUE,
        !.wave_index = wave_index,
        !.info = [ZeroVoiceInfo EXCEPT
                    !.is_new = TRUE, !.is_in_use = TRUE,
                    !.sample_format = "Int16",
                    !.sample_rate = STREAM_SAMPLE_RATE,
                    !.channel_count = 2, !.volume = 1,
                    !.wave_buffer_head = wave_index,
                    !.wave_buffer = wave_buffer]] :
        wave_index \in {0, 3}, wave_buffer \in FrameWaveBufferLists}

NoFrame ==
    [pc |-> "idle", samples_remaining |-> 0, offset |-> 0, buffer |-> <<>>,
     overrun |-> FALSE]

FrameInit ==
    /\ stream = NewStream
    /\ buffer_event = FALSE
    /\ worker_params = Config(1, 0, 1)
    /\ voices \in {<<v>> : v \in FrameVoices}
    /\ effects = <<>>
    /\ channels = <<[id |-> 0, mix |-> <<1, 1>>, overlay |-> FALSE]>>
    /\ input_params = <<>>
    /\ output_params = <<>>
    /\ ret = NoRet
    /\ hist = NoFrame
    /\ rhist = NoRHist

FrameRest ==
    UNCHANGED <<stream, buffer_event, worker_params, effects, channels,
                input_params, output_params, rhist>>

\* QueueMixedBuffer up to the while loop of the voice: the silent frame,
\* and "continue" for a voice that is not playing.
FBegin ==
    /\ hist.pc = "idle"
    /\ hist' = IF VoiceIsPlaying(voices[1])
               THEN [pc |-> "mixing", samples_remaining |-> BUFFER_SIZE,
                     offset |-> 0,
                     buffer |-> [i \in 1..FrameLength |-> 0],
                     overrun |-> FALSE]
               ELSE NoFrame
    /\ ret' = [NoRet EXCEPT !.op = "QueueMixedBuffer",
                            !.result = VoiceIsPlaying(voices[1])]
    /\ UNCHANGED voices
    /\ FrameRest

\* One iteration of the while loop: the dequeue, the break on an empty
\* result, and the accumulation into the frame buffer.  A write at an index
\* of FrameLength or more is outside the buffer.
FDequeue ==
    /\ hist.pc = "mixing"
    /\ hist.samples_remaining > 0
    /\ \E d \in {DequeueSamples(voices[1], hist.samples_remaining)} :
           /\ voices' = <<[d.voice EXCEPT
                             !.out_status.played_sample_count =
                                 @ % (MaxPlayed + 1),
                             !.out_status.wave_buffer_consumed =
                                 @ % (MaxPlayed + 1)]>>
           /\ hist' = IF d.samples = <<>>
                      THEN [hist EXCEPT !.pc = "idle"]
                      ELSE [hist EXCEPT
                              !.samples_remaining =
                                  @ - (Len(d.samples) \div STREAM_NUM_CHANNELS),
                              !.offset = Min(@ + Len(d.samples), FrameLength + 1),
                              !.buffer = MixSamples(@, hist.offset, d.samples,
                                                    d.voice.info.volume,
                                                    channels[d.voice.info.id + 1].mix),
                              !.overrun = @ \/ hist.offset + Len(d.samples)
                                                 > FrameLength]
           /\ ret' = [NoRet EXCEPT !.op = "DequeueSamples",
                                   !.sample_count = hist.samples_remaining,
                                   !.samples = d.samples]
    /\ FrameRest

\* The loop test fails: the frame is complete.
FEnd ==
    /\ hist.pc = "mixing"
    /\ hist.samples_remaining <= 0
    /\ hist' = [hist EXCEPT !.pc = "idle"]
    /\ ret' = [NoRet EXCEPT !.op = "FrameMixed", !.samples = hist.buffer]
    /\ UNCHANGED voices
    /\ FrameRest

\* After a write outside the frame buffer the behaviour is undefined: the
\* loop may go on (FDequeue) or the process may die here.
FCrash ==
    /\ hist.pc = "mixing"
    /\ hist.overrun
    /\ hist' = [hist EXCEPT !.pc = "crashed"]
    /\ ret' = [NoRet EXCEPT !.op = "Crash"]
    /\ UNCHANGED voices
    /\ FrameRest

FrameNext == FBegin \/ FDequeue \/ FEnd \/ FCrash

FrameSpec == FrameInit /\ [][FrameNext]_vars

\* The thread that mixes keeps running.
FrameLive == FrameSpec /\ WF_vars(FrameNext)

(***************************************************************************)
(* Mixing: a renderer with several voices, each update describing every    *)
(* voice as in use, new and Started with one wave buffer that fills        *)
(* exactly one frame.                                                      *)
(***************************************************************************)
MixConfig == Config(MaxVoices + 1, 0, 1)

\* A voice playing BUFFER_SIZE stereo sample frames found at addr.
MixVoiceRequest(addr, volume) ==
    [ZeroVoiceInfo EXCEPT
        !.is_new = TRUE, !.is_in_use = TRUE, !.play_state = "Started",
        !.sample_format = "Int16", !.sample_rate = STREAM_SAMPLE_RATE,
        !.channel_count = 2, !.volume = volume,
        !.wave_buffer[1] = [buffer_addr |-> addr,
                            buffer_sz |-> 2 * STREAM_NUM_CHANNELS * BUFFER_SIZE,
                            is_looping |-> FALSE, end_of_stream |-> TRUE]]

\* Data starting with 20000, -20000 at volume 1 or 2, or with -20000, 300.
MixVoiceRequests ==
    {MixVoiceRequest(516, 1), MixVoiceRequest(516, 2), MixVoiceRequest(518, 1)}

MixInputs ==
    {[BaseInput(MixConfig) EXCEPT !.voice_info = voice_info] :
        voice_info \in [1..MixConfig.voice_count -> MixVoiceRequests]}

MixInit ==
    \E r \in {NewRenderer(MixConfig)} :
        /\ worker_params = MixConfig
        /\ voices = r.voices
        /\ effects = r.effects
        /\ channels = r.channels
        /\ stream = r.stream
        /\ buffer_event = FALSE
        /\ input_params = <<>>
        /\ output_params = <<>>
        /\ ret = NoRet
        /\ hist = NoHist
        /\ rhist = NoRHist

\* The guest sends the same voice descriptions with every update of a run.
MixUpdate ==
    \E input \in MixInputs :
        /\ input_params \in {<<>>, <<input>>}
        /\ UpdateWith(input)

MixNext == MixUpdate \/ ReleaseEvent

MixSpec == MixInit /\ [][MixNext]_vars

(***************************************************************************)
(* Properties of UpdateAudioRenderer (specification Spec)                  *)
(***************************************************************************)
HasResponse == output_params # <<>> /\ input_params # <<>>

Request == input_params[1]

Response == output_params[1]

\* The sum of the section sizes the response header declares for the
\* configured counts, the header itself included.
DeclaredSize(config) ==
    64 + 176 + (16 * (config.effect_count + (4 * config.voice_count)))
    + (16 * config.voice_count) + (16 * config.effect_count)
    + (32 * config.sink_count) + 16

\* The version number of a revision, top byte minus "0" in unsigned 32-bit
\* arithmetic, is at least 5: the subtraction wraps below "0".
VersionAtLeast5(revision) == revision[4] \notin 48..52

\* C1: after every UpdateAudioRenderer call the length of the returned blob
\* equals the total_size written in the blob's header.
C1_BlobSizeIsTotalSize ==
    HasResponse => Response.size = Response.header.total_size

\* C2 (as stated): the revision of the response header equals the revision
\* of the request header.
C2_RevisionEchoed ==
    HasResponse => Response.header.revision = Request.revision

\* C2 (amended): the revision of the response header is "REV4" whatever the
\* revision of the request.
C2_RevisionIsRev4 ==
    HasResponse => Response.header.revision = <<82, 69, 86, 52>>

\* C2 witness: a request of another revision was answered with "REV4".
C2_Witness ==
    /\ HasResponse
    /\ Request.revision = <<82, 69, 86, 53>>
    /\ Response.header.revision = <<82, 69, 86, 52>>

\* C3: total_size of the response header is the header size plus the section
\* sizes of the configured counts, plus 16 exactly when the version of the
\* request's revision is at least 5 (unsigned); frame_count is 16 in that
\* case and 0 otherwise.
C3_TotalSize ==
    HasResponse =>
        /\ Response.header.total_size =
              DeclaredSize(worker_params)
              + (IF VersionAtLeast5(Request.revision) THEN 16 ELSE 0)
        /\ Response.header.frame_count =
              (IF VersionAtLeast5(Request.revision) THEN 16 ELSE 0)

\* C3 witness: a revision whose top byte is below "0", so that the version
\* wraps to a large unsigned number, got the 16 extra bytes, with voices,
\* effects and sinks configured.
C3_Witness ==
    /\ HasResponse
    /\ Request.revision[4] = 0
    /\ worker_params.voice_count > 0
    /\ worker_params.effect_count > 0
    /\ worker_params.sink_count > 0
    /\ Response.header.frame_count = 16
    /\ Response.header.total_size = DeclaredSize(worker_params) + 16

\* C4: in every update, each of the effect_count + 4 * voice_count memory
\* pool slots that requests RequestAttach is answered Attached and each
\* that requests RequestDetach is answered Detached.
C4_AttachDetach ==
    HasResponse =>
        /\ Len(Response.memory_pool) = MemoryPoolCount(worker_params)
        /\ \A slot \in 1..MemoryPoolCount(worker_params) :
              /\ Request.mem_pool_info[slot] = "RequestAttach"
                    => Response.memory_pool[slot] = "Attached"
              /\ Request.mem_pool_info[slot] = "RequestDetach"
                    => Response.memory_pool[slot] = "Detached"

\* C4 witness: the last of several slots requested a detach and was answered
\* Detached.
C4_Witness ==
    /\ HasResponse
    /\ MemoryPoolCount(worker_params) > 1
    /\ Request.mem_pool_info[MemoryPoolCount(worker_params)] = "RequestDetach"
    /\ Response.memory_pool[MemoryPoolCount(worker_params)] = "Detached"

\* C5: a memory pool slot whose request in an update is neither
\* RequestAttach nor RequestDetach is reported in the state the previous
\* update reported for it.
C5_PoolStateKept ==
    [][(ret'.op = "UpdateAudioRenderer" /\ HasResponse)
          => \A slot \in 1..MemoryPoolCount(worker_params) :
                input_params'[1].mem_pool_info[slot]
                      \notin {"RequestAttach", "RequestDetach"}
                   => output_params'[1].memory_pool[slot]
                         = output_params[1].memory_pool[slot]]_vars

\* C9: the renderer regenerates a frame of tag t only after a release event
\* moved a buffer of tag t to the released queue and its callback ran, and
\* at most once for each such release: no tag has been regenerated more
\* often than released.
C9_RegenerateAfterRelease ==
    \A t \in RendererTags : rhist.owed[t] >= 0

\* C9 witness: release events fired and the update that followed
\* regenerated every released frame.
C9_Witness ==
    /\ ret.op = "UpdateAudioRenderer"
    /\ buffer_event
    /\ \A t \in RendererTags : rhist.owed[t] = 0
    /\ Len(stream.queued_buffers) + Len(stream.active_buffer) = 3

\* C10: when UpdateAudioRenderer returns, the released queue is empty: every
\* frame released before the call was drained and regenerated.
C10_ReleasedDrained ==
    ret.op = "UpdateAudioRenderer" => stream.released_buffers = <<>>

\* The number of stereo sample frames of the wave buffer that
\* VoiceRequest describes.
RequestFrames ==
    VoiceRequest(TRUE, "Started").wave_buffer[1].buffer_sz
        \div (2 * STREAM_NUM_CHANNELS)

\* C17: a renderer with 1 voice, 0 effects and 1 sink is fed updates that
\* describe the voice as in use, new, Started, PCM16, stereo, 48000 Hz with
\* one non-looping wave buffer of N sample frames: once played_sample_count
\* has reached N it never exceeds N and the voice is Paused from then on.
C17_PlayedOnceThenPaused ==
    (worker_params = Config(1, 0, 1) /\ rhist.fed /\ HasResponse
        /\ Response.voice_out[1].played_sample_count >= RequestFrames)
    => /\ Response.voice_out[1].played_sample_count = RequestFrames
       /\ voices[1].out_status.played_sample_count = RequestFrames
       /\ voices[1].info.play_state = "Paused"

\* C18 (as stated): every UpdateAudioRenderer call signals buffer_event
\* exactly once and nothing else signals it.
C18_SignalPerUpdate ==
    /\ ret.op = "UpdateAudioRenderer" => ret.signals = 1
    /\ ret.op # "UpdateAudioRenderer" => ret.signals = 0

\* C18 (amended): buffer_event is signalled exactly once by every release
\* event of the stream (the release callback of ReleaseActiveBuffer) and by
\* nothing else: an UpdateAudioRenderer call signals nothing.
C18_SignalPerRelease ==
    /\ ret.op = "ReleaseActiveBuffer" => (ret.signals = 1 /\ buffer_event)
    /\ ret.op # "ReleaseActiveBuffer" => ret.signals = 0

\* C18 witness: the event was signalled by a release event before any
\* update call.
C18_Witness ==
    /\ ret.op = "ReleaseActiveBuffer"
    /\ ret.signals = 1
    /\ buffer_event
    /\ ~HasResponse

(***************************************************************************)
(* Properties of the stream (specification StreamSpec)                     *)
(***************************************************************************)
\* C6 (as stated): from an empty stream, Stopped or Playing, with no release
\* event in between, the first 32 QueueBuffer calls succeed and the 33rd
\* fails.
C6_Limit32 ==
    (ret.op = "QueueBuffer" /\ hist.qrun > 0)
        => (ret.result <=> hist.qrun <= MaxAudioBufferCount)

\* C6 (amended): from an empty stream with no release event in between, a
\* Stopped stream accepts the first 32 QueueBuffer calls and rejects the
\* 33rd; a Playing stream makes the first buffer active at once, accepts
\* the first 33 calls and rejects the 34th.
C6_LimitByState ==
    (ret.op = "QueueBuffer" /\ hist.qrun > 0)
        => (ret.result <=>
               hist.qrun <= MaxAudioBufferCount
                            + (IF IsPlaying(stream) THEN 1 ELSE 0))

\* C6 witness: the 34th call in a row on a Playing stream was rejected, with
\* 32 buffers queued behind the active one.
C6_Witness ==
    /\ ret.op = "QueueBuffer"
    /\ hist.qrun = MaxAudioBufferCount + 2
    /\ ~ret.result
    /\ IsPlaying(stream)
    /\ Len(stream.queued_buffers) = MaxAudioBufferCount
    /\ stream.active_buffer # <<>>

\* C7: GetTagsAndReleaseBuffers(n) returns at most n tags; the tags returned
\* so far followed by those still in the released queue are the tags of the
\* buffers released, in release order, each once; a call on an empty
\* released queue returns nothing.
C7_TagsFifo ==
    /\ ret.op = "GetTagsAndReleaseBuffers"
          => /\ Len(ret.tags) <= ret.max_count
             /\ ret.was_empty => ret.tags = <<>>
    /\ hist.returned \o Tags(stream.released_buffers) = hist.released

\* C7 witness: a call returned as many tags as it asked for and left
\* released buffers behind, after earlier calls had returned others.
C7_Witness ==
    /\ ret.op = "GetTagsAndReleaseBuffers"
    /\ ret.max_count = MaxCount
    /\ Len(ret.tags) = MaxCount
    /\ Len(hist.returned) > MaxCount
    /\ stream.released_buffers # <<>>

\* C8: buffers become active, and are moved to the released queue, in the
\* order in which QueueBuffer accepted them.
C8_FifoOrder ==
    /\ IsPrefix(hist.activated, hist.accepted)
    /\ IsPrefix(hist.released, hist.activated)

\* C8 witness: several buffers were released and one became active while
\* others wait behind it, after a Stop.
C8_Witness ==
    /\ Len(hist.released) >= 2
    /\ stream.active_buffer # <<>>
    /\ Len(stream.queued_buffers) >= 2
    /\ ret.op = "Stop"


(***************************************************************************)
(* Properties of a voice (specification VoiceSpec)                         *)
(***************************************************************************)
Voice == voices[1]

Before == ret.before[1]

\* The last DequeueSamples call was made on a playing voice.
DequeuedPlaying ==
    /\ ret.op = "DequeueSamples"
    /\ Before.is_in_use
    /\ Before.info.play_state = "Started"

\* The number of samples the decoded cache of wave buffer wb holds (stereo
\* PCM16: one per two bytes).
DecodedSize(wb) == wb.buffer_sz \div 2

\* The last DequeueSamples call returned samples up to the last one of the
\* decoded cache of the wave buffer that was current.
ReturnedLastSample ==
    /\ ret.samples # <<>>
    /\ Before.offset + Len(ret.samples) = DecodedSize(Before.info.wave_buffer)

\* C11: a playing voice whose current wave buffer has end_of_stream set and
\* a nonzero size is Paused after a DequeueSamples call exactly when that
\* call returned the last sample of the buffer's decoded cache; after every
\* earlier call it is still Started.
C11_PausedAtLastSample ==
    (/\ DequeuedPlaying
     /\ Before.info.wave_buffer.end_of_stream
     /\ Before.info.wave_buffer.buffer_sz # 0)
    => /\ ReturnedLastSample => Voice.info.play_state = "Paused"
       /\ ~ReturnedLastSample => Voice.info.play_state = "Started"


\* The last DequeueSamples call returned samples up to the last one of the
\* cache it read from.
ConsumedLastSample ==
    /\ ret.samples # <<>>
    /\ Before.offset + Len(ret.samples) = Len(Voice.samples)

\* C12: a DequeueSamples call that consumes the last sample of a wave buffer
\* that is not looping and has a nonzero size moves wave_index to
\* (wave_index + 1) mod 4, marks a refresh pending and adds exactly 1 to
\* wave_buffer_consumed; a call that does not reach the end of the cache
\* leaves wave_index and wave_buffer_consumed as they were.
C12_AdvanceAtEnd ==
    (DequeuedPlaying /\ ~Voice.oob_read)
    => /\ (/\ ConsumedLastSample
           /\ ~Before.info.wave_buffer.is_looping
           /\ Before.info.wave_buffer.buffer_sz # 0)
          => /\ Voice.wave_index = (Before.wave_index + 1) % 4
             /\ Voice.is_refresh_pending
             /\ Voice.out_status.wave_buffer_consumed
                   = Before.out_status.wave_buffer_consumed + 1
       /\ Before.offset + Len(ret.samples) < Len(Voice.samples)
          => /\ Voice.wave_index = Before.wave_index
             /\ Voice.out_status.wave_buffer_consumed
                   = Before.out_status.wave_buffer_consumed

\* C12 witness: the call consumed the last sample of wave buffer 3, after
\* another wave buffer had been consumed, and wave_index wrapped to 0.
C12_Witness ==
    /\ DequeuedPlaying
    /\ ConsumedLastSample
    /\ Before.wave_index = 3
    /\ ~Before.info.wave_buffer.is_looping
    /\ Before.info.wave_buffer.buffer_sz # 0
    /\ Voice.wave_index = 0
    /\ Voice.is_refresh_pending
    /\ Voice.out_status.wave_buffer_consumed > 1

\* C13: the first DequeueSamples call on a voice that came into use and was
\* Started without ever being flagged new decodes the current wave buffer
\* from guest memory and returns its first samples, not an empty result.
C13_FreshVoiceRefreshes ==
    (DequeuedPlaying /\ ret.result /\ Before.info.wave_buffer.buffer_sz # 0)
    => /\ ret.samples # <<>>
       /\ ret.samples
             = SubSeq(ReadBlock(Before.info.wave_buffer.buffer_addr,
                                Before.info.wave_buffer.buffer_sz),
                      1, Len(ret.samples))

\* C15: IsPlaying is true exactly when the voice's in-use flag is set and
\* its play state is Started; it is false for a freshly constructed voice
\* and for a voice that is Stopped or Paused.
C15_IsPlaying ==
    ret.op = "IsPlaying"
    => /\ ret.result <=> (Voice.is_in_use /\ Voice.info.play_state = "Started")
       /\ Voice = NewVoiceState => ~ret.result
       /\ Voice.info.play_state \in {"Stopped", "Paused"} => ~ret.result

\* C15 witness: IsPlaying answered false for a voice in use that an earlier
\* DequeueSamples call had paused.
C15_Witness ==
    /\ ret.op = "IsPlaying"
    /\ ~ret.result
    /\ Voice.is_in_use
    /\ Voice.info.play_state = "Paused"
    /\ Voice.out_status.wave_buffer_consumed > 0

\* C16: DequeueSamples on a voice that is not playing returns no samples and
\* leaves the voice as it was: offset, wave_index, the pending refresh, the
\* cache (no refresh, hence no read of guest memory), play state and out
\* status.
C16_NotPlayingUntouched ==
    (ret.op = "DequeueSamples"
        /\ ~(Before.is_in_use /\ Before.info.play_state = "Started"))
    => /\ ret.samples = <<>>
       /\ Observed(Voice) = Before

\* C16 witness: a voice in use but Paused, with a refresh pending and
\* samples left in its cache, returned nothing.
C16_Witness ==
    /\ ret.op = "DequeueSamples"
    /\ Before.is_in_use
    /\ Before.info.play_state = "Paused"
    /\ Before.is_refresh_pending
    /\ Before.samples # <<>>
    /\ Before.info.wave_buffer.buffer_sz # 0
    /\ ret.samples = <<>>

Mid == ret.mid[1]

\* The last update found the voice in use and described it as not in use.
LeftUse == Before.is_in_use /\ ~Voice.info.is_in_use

\* C19: UpdateState on a voice that was in use and is described as not in
\* use resets offset and wave_index to 0 and out_status to zeros and marks
\* a refresh pending; otherwise it leaves offset, wave_index and out_status
\* alone; in every case the in-use flag afterwards is the parsed is_in_use.
C19_UpdateState ==
    ret.op = "UpdateVoice"
    => /\ Mid.is_in_use = Voice.info.is_in_use
       /\ LeftUse => /\ Mid.offset = 0
                     /\ Mid.wave_index = 0
                     /\ Mid.out_status = ZeroVoiceOutStatus
                     /\ Mid.is_refresh_pending
       /\ ~LeftUse => /\ Mid.offset = Before.offset
                      /\ Mid.wave_index = Before.wave_index
                      /\ Mid.out_status = Before.out_status

\* C19 witness: a voice with a nonzero offset and wave index, and samples
\* played, was described as not in use and reset.
C19_Witness ==
    /\ ret.op = "UpdateVoice"
    /\ LeftUse
    /\ Before.offset > 0
    /\ Before.wave_index > 0
    /\ Before.out_status.played_sample_count > 0
    /\ Voice.offset = 0
    /\ Voice.out_status = ZeroVoiceOutStatus

\* C20: an update sets a voice's wave index to wave_buffer_head mod 4 and
\* marks a refresh pending exactly when the parsed voice is in use and new;
\* a voice that is new but not in use, or in use but not new, keeps the
\* wave index and the pending flag UpdateState left it.
C20_NewResetsWaveIndex ==
    ret.op = "UpdateVoice"
    => IF Voice.info.is_in_use /\ Voice.info.is_new
       THEN /\ Voice.wave_index = Voice.info.wave_buffer_head % 4
            /\ Voice.is_refresh_pending
       ELSE /\ Voice.wave_index = Mid.wave_index
            /\ Voice.is_refresh_pending = Mid.is_refresh_pending
            /\ Voice.info.is_in_use => Voice.wave_index = Before.wave_index

\* C20 witness: a voice described as new with head 3, but not in use, kept
\* wave index 0 and no refresh was marked.
C20_Witness ==
    /\ ret.op = "UpdateVoice"
    /\ Voice.info.is_new
    /\ ~Voice.info.is_in_use
    /\ Voice.info.wave_buffer_head = 3
    /\ ~Before.is_in_use
    /\ Voice.wave_index = 0
    /\ ~Voice.is_refresh_pending


(***************************************************************************)
(* Properties of mixing (specification MixSpec)                            *)
(***************************************************************************)
\* A value brought into the range of a signed 16-bit sample.
Saturate(value) ==
    IF value > 32767 THEN 32767 ELSE IF value < -32768 THEN -32768 ELSE value

\* What the voice described by info adds to slot k of a frame it plays from
\* the start of its wave buffer, with mix gain 1.
Contribution(info, k) ==
    IF info.is_in_use
    THEN GuestS16(info.wave_buffer[1].buffer_addr + 2 * (k - 1)) * info.volume
    ELSE 0

\* Slot k of the frame after the voices up to voice i have been added, one
\* at a time, saturating after each.
RECURSIVE MixedUpTo(_, _)
MixedUpTo(i, k) ==
    IF i = 0 THEN 0
    ELSE Saturate(MixedUpTo(i - 1, k) + Contribution(Request.voice_info[i], k))

\* The samples of the buffer tagged tag that the stream plays or holds
\* queued.
InFlight == stream.active_buffer \o stream.queued_buffers

SamplesOf(tag) ==
    (CHOOSE b \in {InFlight[j] : j \in DOMAIN InFlight} : b.tag = tag).samples

\* C14: every sample of a mixed frame lies in -32768..32767 and is the sum
\* of the voices' contributions added one voice at a time and saturated
\* after each addition; two voices adding 20000 each give 32767.
C14_SaturatedMix ==
    /\ \A j \in DOMAIN InFlight :
          \A k \in DOMAIN InFlight[j].samples :
             InFlight[j].samples[k] \in -32768..32767
    /\ (ret.op = "UpdateAudioRenderer" /\ ret.tags # <<>>)
          => \A k \in 1..(BUFFER_SIZE * STREAM_NUM_CHANNELS) :
                SamplesOf(ret.tags[1])[k] = MixedUpTo(Len(voices), k)

\* C14 witness: two voices at volume 1 both added 20000 to the first slot
\* of a frame, which holds 32767, and -20000 to the second, which holds
\* -32768.
C14_Witness ==
    /\ ret.op = "UpdateAudioRenderer"
    /\ ret.tags # <<>>
    /\ Contribution(Request.voice_info[1], 1) = 20000
    /\ Contribution(Request.voice_info[2], 1) = 20000
    /\ SamplesOf(ret.tags[1])[1] = 32767
    /\ SamplesOf(ret.tags[1])[2] = -32768

(***************************************************************************)
(* Further properties of one voice (specification VoiceSpec)               *)
(***************************************************************************)
\* The last update found the voice not in use and described it as in use.
CameIntoUse == ret.op = "UpdateVoice" /\ ~Before.is_in_use /\ Voice.info.is_in_use

\* C21: an update that takes a voice from not in use to in use sets the
\* voice's wave index to the declared wave_buffer_head, whether or not the
\* description is flagged new.
C21_InUseResetsWaveIndex ==
    CameIntoUse => Voice.wave_index = Voice.info.wave_buffer_head % 4

\* C22: played_sample_count and wave_buffer_consumed of a voice never
\* decrease, except in an update that takes the voice from in use to not in
\* use, which zeroes them; a DequeueSamples call adds to played_sample_count
\* exactly the sample frames it returns (returned length / 2), and that is
\* at most the count requested.
C22_CountsAccumulate ==
    /\ (ret.op \in {"UpdateVoice", "DequeueSamples"})
       => IF ret.op = "UpdateVoice" /\ LeftUse
          THEN Voice.out_status = ZeroVoiceOutStatus
          ELSE /\ Voice.out_status.played_sample_count
                     >= Before.out_status.played_sample_count
               /\ Voice.out_status.wave_buffer_consumed
                     >= Before.out_status.wave_buffer_consumed
    /\ (ret.op = "DequeueSamples" /\ ~Voice.oob_read)
       => /\ Voice.out_status.played_sample_count
                = Before.out_status.played_sample_count
                  + (Len(ret.samples) \div STREAM_NUM_CHANNELS)
          /\ Len(ret.samples) \div STREAM_NUM_CHANNELS <= ret.sample_count

\* C22 witness: a call asking for three sample frames of a voice that had
\* played some already returned the one frame left in the cache, and
\* played_sample_count grew by one.
C22_Witness ==
    /\ ret.op = "DequeueSamples"
    /\ ~Voice.oob_read
    /\ ret.sample_count = 3
    /\ Len(ret.samples) = 2
    /\ Before.out_status.played_sample_count > 0
    /\ Voice.out_status.played_sample_count
          = Before.out_status.played_sample_count + 1

(***************************************************************************)
(* Further properties of UpdateAudioRenderer (specification Spec)          *)
(***************************************************************************)
\* C24: the number of ChannelInfoIn entries an update parses is the byte
\* distance from the end of the memory-pool section to the start of the
\* voice section, the header's voice_resource_size, divided by the size of
\* a ChannelInfoIn, whatever the configured voice count.
C24_ChannelCount ==
    HasResponse
    => Len(channels) = Request.voice_resource_size \div SizeofChannelInfoIn

\* C23: UpdateAudioRenderer parses a request and answers it only when every
\* byte it reads lies inside the blob and the section sizes the header
\* declares agree with the configured voice and effect counts; any other
\* request is rejected.
C23_RejectsMalformed ==
    HasResponse
    => /\ ReadEnd(worker_params, Request) <= Request.size
       /\ Request.memory_pools_size
             = MemoryPoolCount(worker_params) * SizeofMemoryPoolInfo
       /\ Request.voices_size = worker_params.voice_count * SizeofVoiceInfo

(***************************************************************************)
(* Further properties of the stream (specification StreamSpec)             *)
(***************************************************************************)
\* The buffers the stream s holds, queued, active or released.
HeldBuffers(s) == s.queued_buffers \o s.active_buffer \o s.released_buffers

\* C25: a QueueBuffer call that returns failure leaves the stream as it
\* was: queued, active and released buffers, play state, scheduled release
\* events and sink (no playback start, no flush); the rejected buffer is
\* nowhere in the stream.
C25_FailedQueueKeepsStream ==
    [][(ret'.op = "QueueBuffer" /\ ~ret'.result)
       => /\ stream' = stream
          /\ \A i \in DOMAIN HeldBuffers(stream') :
                HeldBuffers(stream')[i].tag # Len(hist.accepted)]_vars

\* C25 witness: a QueueBuffer call failed on a playing stream with a full
\* queue, an active buffer and a release event scheduled.
C25_Witness ==
    /\ ret.op = "QueueBuffer"
    /\ ~ret.result
    /\ Len(stream.queued_buffers) = MaxAudioBufferCount
    /\ stream.state = "Playing"
    /\ stream.active_buffer # <<>>
    /\ stream.events > 0

\* C26: a step that leaves the stream Stopped moves no buffer from the
\* queue to active and schedules no release event: QueueBuffer only appends
\* to the queue, and a release event only retires the active buffer, the
\* next queued buffer staying queued.  (A buffer is started only by a step
\* that ends in state Playing.)
C26_StoppedStartsNothing ==
    [][stream'.state = "Stopped"
       => /\ stream'.events <= stream.events
          /\ stream'.active_buffer \in {stream.active_buffer, <<>>}
          /\ IsPrefix(stream.queued_buffers, stream'.queued_buffers)
          /\ (ret'.op = "QueueBuffer" /\ ret'.result)
             => /\ Len(stream'.queued_buffers) = Len(stream.queued_buffers) + 1
                /\ stream'.active_buffer = stream.active_buffer
                /\ stream'.events = stream.events
          /\ ret'.op = "ReleaseActiveBuffer"
             => /\ stream'.active_buffer = <<>>
                /\ stream'.queued_buffers = stream.queued_buffers]_vars

\* C26 witness: a release event fired on a Stopped stream with buffers
\* queued; the active buffer was released and none was started.
C26_Witness ==
    /\ ret.op = "ReleaseActiveBuffer"
    /\ stream.state = "Stopped"
    /\ Len(stream.queued_buffers) > 1
    /\ stream.active_buffer = <<>>
    /\ stream.released_buffers # <<>>
    /\ stream.events = 0
    /\ stream.sink = "Flush"

\* C27: Play() leaves the stream Playing; when no buffer was active and the
\* queue was not empty, the head of the queue becomes the active buffer,
\* its samples go to the sink and exactly one release event is scheduled;
\* when a buffer was already active, Play() changes nothing but the state.
C27_Play ==
    [][ret'.op = "Play"
       => /\ stream'.state = "Playing"
          /\ (stream.active_buffer = <<>> /\ stream.queued_buffers # <<>>)
             => /\ Tags(stream'.active_buffer)
                      = <<Head(stream.queued_buffers).tag>>
                /\ stream'.queued_buffers = Tail(stream.queued_buffers)
                /\ stream'.sink = "Enqueue"
                /\ stream'.events = stream.events + 1
                /\ stream'.released_buffers = stream.released_buffers
          /\ stream.active_buffer # <<>>
             => stream' = [stream EXCEPT !.state = "Playing"]]_vars

\* C27 witness: Play() on a Stopped stream with two buffers queued and none
\* active started the first of them.
C27_Witness ==
    /\ ret.op = "Play"
    /\ stream.state = "Playing"
    /\ Tags(stream.active_buffer) = <<0>>
    /\ Tags(stream.queued_buffers) = <<1>>
    /\ stream.events = 1
    /\ stream.sink = "Enqueue"
    /\ hist.activated = <<0>>

(***************************************************************************)
(* Properties of RefreshBuffer (specification RefreshSpec)                 *)
(***************************************************************************)
\* C28: for a PCM16 voice at the stream's rate, the cache after a refresh
\* holds the samples of the current wave buffer as guest memory has them
\* when the voice has two channels, and each of them twice in a row when it
\* has one; the interpolation state is as before.
C28_IdentityPath ==
    (/\ ret.op = "RefreshBuffer"
     /\ Voice.info.sample_format = "Int16"
     /\ Voice.info.sample_rate = STREAM_SAMPLE_RATE)
    => LET wb == Before.info.wave_buffer
           count == wb.buffer_sz \div 2
       IN  /\ Voice.info.channel_count = 2
              => /\ Len(Voice.samples) = count
                 /\ \A k \in 1..count :
                       Voice.samples[k] = GuestS16(wb.buffer_addr + 2 * (k - 1))
           /\ Voice.info.channel_count = 1
              => /\ Len(Voice.samples) = 2 * count
                 /\ \A k \in 1..count :
                       /\ Voice.samples[2 * k - 1]
                             = GuestS16(wb.buffer_addr + 2 * (k - 1))
                       /\ Voice.samples[2 * k]
                             = GuestS16(wb.buffer_addr + 2 * (k - 1))
           /\ Voice.interp_state = Before.interp_state

\* C28 witness: a one-channel voice with a phase left from earlier
\* resampling refreshed a wave buffer of three samples into a cache of six.
C28_Witness ==
    /\ ret.op = "RefreshBuffer"
    /\ Voice.info.sample_rate = STREAM_SAMPLE_RATE
    /\ Voice.info.channel_count = 1
    /\ Before.interp_state # 0
    /\ Before.info.wave_buffer.buffer_sz = 6
    /\ Voice.samples = <<-20000, -20000, 300, 300, 20000, 20000>>

(***************************************************************************)
(* Properties of one effect (specification EffectSpec)                     *)
(***************************************************************************)
\* Each of the four aux buffer words of the effect description info reads
\* as zero.
AuxWordsZero(info) ==
    /\ Read32IsZero(info.aux_info.return_buffer_info)
    /\ Read32IsZero(info.aux_info.send_buffer_info)
    /\ Read32IsZero(info.aux_info.return_buffer_base)
    /\ Read32IsZero(info.aux_info.send_buffer_base)

\* C29: an update of an effect described as new sets its output status to
\* New, whatever its type, and asserts nothing about the aux buffer words;
\* an update of an effect not described as new leaves the output status as
\* it was, and the four aux buffer words are checked to be zero for an Aux
\* effect only.
C29_EffectUpdateState ==
    ret.op = "UpdateEffect"
    => LET e == effects[1]
           b == ret.before[1]
       IN  /\ e.info.is_new
              => /\ e.out_status = "New"
                 /\ e.assert_failed = b.assert_failed
           /\ ~e.info.is_new
              => /\ e.out_status = b.out_status
                 /\ e.assert_failed
                       = (b.assert_failed
                          \/ (e.info.type = "Aux" /\ ~AuxWordsZero(e.info)))

\* C29 witness: an Aux effect whose status was New, described as not new
\* with a nonzero aux buffer word, kept status New and failed the
\* assertion, which no earlier update had.
C29_Witness ==
    /\ ret.op = "UpdateEffect"
    /\ effects[1].info.type = "Aux"
    /\ ~effects[1].info.is_new
    /\ ~AuxWordsZero(effects[1].info)
    /\ ret.before[1].out_status = "New"
    /\ ~ret.before[1].assert_failed
    /\ effects[1].out_status = "New"
    /\ effects[1].assert_failed

(***************************************************************************)
(* Properties of the mixing loop (specifications FrameSpec, FrameLive)     *)
(***************************************************************************)
\* C30: mixing a frame terminates: once the loop of a voice has been
\* entered, it stops after finitely many DequeueSamples calls, whatever the
\* wave buffers of the voice (a process that dies of a write outside the
\* frame buffer counts as stopped).
C30_MixTerminates == (hist.pc = "mixing") ~> (hist.pc \in {"idle", "crashed"})

(***************************************************************************)
(* C31.  While a frame is mixed, no write into the frame buffer lands at   *)
(* an index of the frame length or more, and the voice has contributed at  *)
(* most BUFFER_SIZE stereo sample frames to the frame (its write index is  *)
(* at most the frame length), for every wave-buffer size, decoded caches   *)
(* with an odd number of samples included.                                 *)
(***************************************************************************)
C31_WriteIndexInFrame ==
    hist.pc = "mixing" => /\ ~hist.overrun
                          /\ hist.offset <= FrameLength

(***************************************************************************)
(* C32.  At every DequeueSamples call on a playing voice, once a pending   *)
(* refresh is done, the playback offset is at most the length of the       *)
(* cached samples, so the slice the call returns lies within the cache     *)
(* (no read outside it); also after an update that sets is_new again while *)
(* the voice is part-way through a buffer.                                 *)
(***************************************************************************)
C32_OffsetInCache == DequeuedPlaying => ~Voice.oob_read

(***************************************************************************)
(* C33.  In every reachable state of the stream there is at most one       *)
(* active buffer, and the number of release events scheduled and not yet   *)
(* fired is 1 when a buffer is active and 0 otherwise; so the assertion    *)
(* that a buffer is active has never failed when a release event fired,    *)
(* under any interleaving of Play, Stop, QueueBuffer,                      *)
(* GetTagsAndReleaseBuffers and release events.                            *)
(***************************************************************************)
C33_OneActiveOneEvent ==
    /\ Len(stream.active_buffer) <= 1
    /\ stream.events = Len(stream.active_buffer)
    /\ ~stream.assert_failed

\* A release event fired while the stream was stopped, after buffers were
\* queued behind the active one: nothing is active and no event is due.
C33_Witness ==
    /\ ret.op = "ReleaseActiveBuffer"
    /\ stream.state = "Stopped"
    /\ stream.queued_buffers # <<>>
    /\ stream.active_buffer = <<>>
    /\ stream.events = 0
    /\ Len(hist.released) >= 2

(***************************************************************************)
(* Properties of the renderer's three frames (specification Spec)          *)
(***************************************************************************)
\* The tags of the buffers the stream holds: queued, active, released.
StreamTags ==
    Tags(stream.queued_buffers) \o Tags(stream.active_buffer)
        \o Tags(stream.released_buffers)

\* C34: after the constructor, and after every UpdateAudioRenderer call and
\* every release event, the output stream holds exactly three buffers,
\* tagged 0, 1 and 2, each tag once among the queued, active and released
\* buffers; the queue stays below MaxAudioBufferCount, so no QueueBuffer
\* call of the renderer fails (a failed call would lose its buffer).
C34_ThreeBuffers ==
    /\ Len(StreamTags) = 3
    /\ \A t \in RendererTags : CountIn(StreamTags, t) = 1
    /\ Len(stream.queued_buffers) < MaxAudioBufferCount

\* An update took back two released frames and queued them again behind
\* the third, which is playing.
C34_Witness ==
    /\ ret.op = "UpdateAudioRenderer"
    /\ Len(ret.tags) = 2
    /\ Tags(stream.queued_buffers) = ret.tags
    /\ stream.active_buffer # <<>>
    /\ stream.released_buffers = <<>>

(***************************************************************************)
(* Properties of the stream with a fair timer (specification LiveSpec)     *)
(***************************************************************************)
\* C35: if the stream is Playing and stays Playing, and every scheduled
\* release event eventually fires, every buffer QueueBuffer accepted
\* eventually becomes the active buffer and then appears in the released
\* queue; each release runs the release callback once, and no buffer is
\* released twice or before it was active.
C35_AcceptedIsReleased ==
    /\ [](ret.op = "ReleaseActiveBuffer" => ret.signals = 1)
    /\ [](\A k \in 0..(MaxLive - 1) :
             /\ CountIn(hist.released, k) <= 1
             /\ CountIn(hist.released, k) <= CountIn(hist.activated, k))
    /\ \A k \in 0..(MaxLive - 1) :
           (CountIn(hist.accepted, k) = 1 /\ [](stream.state = "Playing"))
               ~> (CountIn(hist.activated, k) = 1
                   /\ CountIn(hist.released, k) = 1)

\* The stream is Playing, and a buffer that was queued behind an active one
\* has been started by a release event and released by the next.
C35_Witness ==
    /\ stream.state = "Playing"
    /\ ret.op = "ReleaseActiveBuffer"
    /\ ret.signals = 1
    /\ Len(hist.accepted) >= 2
    /\ hist.activated = hist.accepted
    /\ hist.released = hist.accepted

\* C36: every voice that QueueMixedBuffer mixed in the latest
\* UpdateAudioRenderer call carries an id that is an index of the channel
\* list the call parsed (id < channels.size()), whatever request the guest
\* sent.
C36_VoiceIdIsChannel ==
    \A i \in ret.mixed : voices[i].info.id < Len(channels)

(***************************************************************************)
(* Further properties of DequeueSamples (specification VoiceSpec)          *)
(***************************************************************************)
\* C37: a DequeueSamples call that consumes the last sample of a looping
\* wave buffer of nonzero size leaves wave_index as it was and no refresh
\* pending (the cache is replayed), returns offset to 0, adds 1 to
\* wave_buffer_consumed, and leaves the voice Started unless the buffer is
\* marked end_of_stream too, in which case it is Paused.
C37_LoopingBufferEnd ==
    (/\ DequeuedPlaying
     /\ ~Voice.oob_read
     /\ ConsumedLastSample
     /\ Before.info.wave_buffer.is_looping
     /\ Before.info.wave_buffer.buffer_sz # 0)
    => /\ Voice.wave_index = Before.wave_index
       /\ ~Voice.is_refresh_pending
       /\ Voice.samples = ReadBlock(Before.info.wave_buffer.buffer_addr,
                                    Before.info.wave_buffer.buffer_sz)
       /\ Voice.offset = 0
       /\ Voice.out_status.wave_buffer_consumed
             = Before.out_status.wave_buffer_consumed + 1
       /\ Voice.info.play_state
             = IF Before.info.wave_buffer.end_of_stream
               THEN "Paused" ELSE "Started"

\* The looping wave buffer 1 was played to its end a second time, from the
\* cache, and the voice is still Started.
C37_Witness ==
    /\ DequeuedPlaying
    /\ ConsumedLastSample
    /\ Before.info.wave_buffer.is_looping
    /\ ~Before.info.wave_buffer.end_of_stream
    /\ ~Before.is_refresh_pending
    /\ Before.out_status.wave_buffer_consumed >= 1
    /\ Voice.wave_index = 1
    /\ Voice.info.play_state = "Started"

\* C38: a DequeueSamples call on a playing voice whose current wave buffer
\* has zero size returns no samples, pauses the voice, and leaves
\* wave_index, wave_buffer_consumed and played_sample_count as they were.
C38_ZeroSizeBuffer ==
    (DequeuedPlaying /\ Before.info.wave_buffer.buffer_sz = 0)
    => /\ ret.samples = <<>>
       /\ ~Voice.oob_read
       /\ Voice.info.play_state = "Paused"
       /\ Voice.wave_index = Before.wave_index
       /\ Voice.out_status = Before.out_status

\* C39: in every reachable state the voice's wave_index is one of 0, 1, 2,
\* 3, for every wave_buffer_head the guest declares and every sequence of
\* updates and DequeueSamples calls.
C39_WaveIndexInRange == Voice.wave_index \in 0..3

\* The guest declared a head of 4 or more on a new voice that stood at
\* wave buffer 3: the index is the head modulo 4, with a refresh pending.
C39_Witness ==
    /\ ret.op = "UpdateVoice"
    /\ Voice.info.is_new
    /\ Voice.info.wave_buffer_head >= 4
    /\ Before.wave_index = 3
    /\ Voice.wave_index = Voice.info.wave_buffer_head % 4
    /\ Voice.is_refresh_pending

(***************************************************************************)
(* Properties of the effects of the renderer (specification Spec)          *)
(***************************************************************************)
\* C40: an effect whose output status is New is reported as New in the
\* response of every later UpdateAudioRenderer call, also when the request
\* describes it as not new or with another type: no step takes the status
\* back to None.
C40_NewIsSticky ==
    [][\A i \in DOMAIN effects :
          effects[i].out_status = "New"
          => /\ effects'[i].out_status = "New"
             /\ ret'.op = "UpdateAudioRenderer"
                => output_params'[1].effect_out[i] = "New"]_vars

\* An update described the effect as an Aux effect that is not new, and the
\* response still reports it as New.
C40_Witness ==
    /\ HasResponse
    /\ ret.op = "UpdateAudioRenderer"
    /\ Len(effects) = 1
    /\ ~effects[1].info.is_new
    /\ effects[1].info.type = "Aux"
    /\ Response.effect_out[1] = "New"

====
